---------------------------- MODULE Spec2Model ----------------------------
(***************************************************************************)
(* AssessSight backend: the scan handler (src/scan.js), its pure helpers   *)
(* hasFormElements and calculateScore, the enrichment block, and the fix   *)
(* handler with its provider fallback chain (src/fix.js), the              *)
(* authentication middleware (src/unnamed/part_000) and the history route  *)
(* (src/unnamed/part_001).                                                 *)
(*                                                                         *)
(* A JavaScript string is a tuple of one-character strings, so that        *)
(* includes(), toLowerCase() and the regular expressions of the source     *)
(* work on characters.  The value undefined is the one-element tuple       *)
(* Undefined, which no string equals.                                      *)
(***************************************************************************)
EXTENDS Integers, Sequences, FiniteSets, TLC

VARIABLES
    \* calculateScore called on its own
    scorePc, scoreArg, scoreRet,
    \* hasFormElements called on its own
    formPc, formArg, formRet,
    \* the enrichment block applied to an issue list, then applied again
    enrichPc, enrichHasForm, enrichIn, enrichOnce, enrichOut,
    \* POST /api/fix: one request
    fixPc, fixBody, GEMINI_API_KEY, OPENAI_API_KEY, geminiCalls, openaiCalls,
    geminiError, geminiData, openaiError, fixRes,
    \* POST /api/scan: the requests in flight
    scanPc, scanBody, scanBrowser, scanHasForm, scanResults, scanDoc,
    scanErr, scanRes, browsers, savedScans,
    \* the Authorization header and req.user of each scan request, the page
    \* content it read, the runners it passed to pa11y, and how often it has
    \* called each collaborator
    scanToken, scanUser, scanContent, scanRunners, scanCalls,
    \* GET /api/history: one request
    histPc, histToken, histUser, histCalls, histRes,
    \* the database connection of src/index.js: the flag, each request's
    \* position in the connection middleware, and its call of mongoose.connect
    isConnected, dbPc, dbConnects,
    \* GET /api/scan/:id: one request
    getPc, getToken, getUser, getId, getRes

scoreVars  == <<scorePc, scoreArg, scoreRet>>
formVars   == <<formPc, formArg, formRet>>
enrichVars == <<enrichPc, enrichHasForm, enrichIn, enrichOnce, enrichOut>>
fixVars    == <<fixPc, fixBody, GEMINI_API_KEY, OPENAI_API_KEY, geminiCalls,
                openaiCalls, geminiError, geminiData, openaiError, fixRes>>
scanVars   == <<scanPc, scanBody, scanBrowser, scanHasForm, scanResults,
                scanDoc, scanErr, scanRes, browsers, savedScans, scanToken,
                scanUser, scanContent, scanRunners, scanCalls>>
histVars   == <<histPc, histToken, histUser, histCalls, histRes>>
dbVars     == <<isConnected, dbPc, dbConnects>>
getVars    == <<getPc, getToken, getUser, getId, getRes>>
vars == <<scoreVars, formVars, enrichVars, fixVars, scanVars, histVars,
          dbVars, getVars>>

-----------------------------------------------------------------------------
(* JavaScript values *)

Undefined == <<"undefined">>

UpperCase == <<"A","B","C","D","E","F","G","H","I","J","K","L","M",
               "N","O","P","Q","R","S","T","U","V","W","X","Y","Z">>
LowerCase == <<"a","b","c","d","e","f","g","h","i","j","k","l","m",
               "n","o","p","q","r","s","t","u","v","w","x","y","z">>

\* String.prototype.toLowerCase on one character
toLowerChar(c) ==
    IF \E k \in 1..26 : UpperCase[k] = c
    THEN LowerCase[CHOOSE k \in 1..26 : UpperCase[k] = c]
    ELSE c

\* String.prototype.toLowerCase
toLowerCase(s) == [k \in 1..Len(s) |-> toLowerChar(s[k])]

\* whether needle occurs in s at position p
OccursAt(s, p, needle) ==
    /\ p + Len(needle) - 1 <= Len(s)
    /\ \A k \in 1..Len(needle) : s[p + k - 1] = needle[k]

\* String.prototype.includes
includes(s, needle) == \E p \in 1..(Len(s) + 1) : OccursAt(s, p, needle)

\* optional chaining: s?.includes(needle) is undefined (falsy) without s
optIncludes(s, needle) == s # Undefined /\ includes(s, needle)

Max(a, b) == IF a >= b THEN a ELSE b

-----------------------------------------------------------------------------
(* calculateScore, src/scan.js:26-45 *)

\* issues.filter(i => i.type === "error").length
errorCount(issues)   == Len(SelectSeq(issues, LAMBDA i : i.type = "error"))
warningCount(issues) == Len(SelectSeq(issues, LAMBDA i : i.type = "warning"))
noticeCountMutCountsOthers(issues) ==
    Len(SelectSeq(issues, LAMBDA i : i.type \notin {"error", "warning"}))
noticeCount(issues)  == Len(SelectSeq(issues, LAMBDA i : i.type = "notice"))

totalIssues(issues) ==
    errorCount(issues) + warningCount(issues) + noticeCount(issues)

ScaleThreshold == 50
ScaleTarget == 50
baseScore == 100
ErrorWeight == 3
WarningWeight == 1
\* the notice weight 0.5 is kept as halves: all deductions are counted in halves
NoticeWeightHalves == 1

\* scaleFactor = totalIssues > 50 ? 50 / totalIssues : 1, as the fraction
\* <<numerator, denominator>>
scaleFactorMutAlwaysOne(total) == <<1, 1>>
scaleFactor(total) ==
    IF total > ScaleThreshold THEN <<ScaleTarget, total>> ELSE <<1, 1>>

RECURSIVE OddPart(_)
OddPart(n) == IF n > 0 /\ n % 2 = 0 THEN OddPart(n \div 2) ELSE n

\* 50 / total is a double: it is exact when the reduced denominator of the
\* quotient is a power of two (the odd part of total divides 25); otherwise
\* the quotient, and with it every scaled deduction, carries a rounding error
ScaleIsExact(total) ==
    \/ total <= ScaleThreshold
    \/ OddPart(total) \in {1, 5, 25}

\* Math.round of the exact quotient p / q (q > 0): the nearest integer, a half
\* rounded towards plus infinity
MathRoundMutFloor(p, q) == p \div q
MathRound(p, q) == (2 * p + q) \div (2 * q)

\* Math.max(0, x)
MathMax0MutNoClamp(x) == x
MathMax0(x) == Max(0, x)

\* baseScore - errorDeduction - warningDeduction - noticeDeduction as the exact
\* fraction <<p, q>>
ScoreFraction(issues) ==
    LET sf == scaleFactor(totalIssues(issues))
        halves == 2 * ErrorWeight * errorCount(issues)
                  + 2 * WarningWeight * warningCount(issues)
                  + NoticeWeightHalves * noticeCount(issues)
    IN  <<2 * baseScore * sf[2] - halves * sf[1], 2 * sf[2]>>

\* The values calculateScore can return.  The source computes in doubles:
\* the result is the rounding of the exact value, except that with an inexact
\* scale factor a value lying exactly on a half may be computed just below it
\* and then rounds down instead of up.  An argument that is no array (null,
\* undefined and every other falsy value among them) gets baseScore.
calculateScoreMutInvalidZero(arg) ==
    IF ~arg.isArray THEN {0}
    ELSE LET f == ScoreFraction(arg.items)
             r == MathRound(f[1], f[2])
             onHalf == (2 * f[1] + f[2]) % (2 * f[2]) = 0
         IN  IF onHalf /\ ~ScaleIsExact(totalIssues(arg.items))
             THEN {MathMax0(r), MathMax0(r - 1)}
             ELSE {MathMax0(r)}
calculateScore(arg) ==
    IF ~arg.isArray THEN {baseScore}
    ELSE LET f == ScoreFraction(arg.items)
             r == MathRound(f[1], f[2])
             onHalf == (2 * f[1] + f[2]) % (2 * f[2]) = 0
         IN  IF onHalf /\ ~ScaleIsExact(totalIssues(arg.items))
             THEN {MathMax0(r), MathMax0(r - 1)}
             ELSE {MathMax0(r)}

-----------------------------------------------------------------------------
(* calculateScore called on its own: every input is a list of MaxErrors errors,
   MaxWarnings warnings, MaxNotices notices and MaxOther issues of another
   type at most, in one of the orders of BlockOrders, or is no list at all *)

MaxErrors == 60
MaxWarnings == 2
MaxNotices == 40
MaxOther == 1

\* an issue as pa11y reports it; calculateScore reads its type alone
PlainIssue(type) ==
    [type |-> type, code |-> <<"c">>, message |-> <<"m">>,
     selector |-> <<"s">>, context |-> <<"x">>]

Repeat(x, k) == [i \in 1..k |-> x]

BlockOrders ==
    { <<"error", "warning", "notice", "info">>,
      <<"info", "notice", "warning", "error">>,
      <<"warning", "error", "info", "notice">> }

BlockList(order, count) ==
    Repeat(PlainIssue(order[1]), count[order[1]])
    \o Repeat(PlainIssue(order[2]), count[order[2]])
    \o Repeat(PlainIssue(order[3]), count[order[3]])
    \o Repeat(PlainIssue(order[4]), count[order[4]])

\* the arguments are kept run-length encoded: the order of the blocks and the
\* length of each; ScoreItems is the list itself
\* the arguments that are no array: those !issues rejects (null, undefined,
\* 0, the empty string) and those Array.isArray rejects (a string, an object)
InvalidArguments == { "null", "undefined", "0", "''", "'abc'", "{length: 1}" }

ScoreInputs ==
    { [kind |-> k, isArray |-> FALSE,
       order |-> <<"error", "warning", "notice", "info">>,
       count |-> [error |-> 0, warning |-> 0, notice |-> 0, info |-> 0]] :
        k \in InvalidArguments }
    \cup
    { [kind |-> "array", isArray |-> TRUE, order |-> order,
       count |-> [error |-> e, warning |-> w, notice |-> n, info |-> o]] :
        order \in BlockOrders, e \in 0..MaxErrors, w \in 0..MaxWarnings,
        n \in 0..MaxNotices, o \in 0..MaxOther }

ScoreItems(arg) == BlockList(arg.order, arg.count)

ScoreInit ==
    /\ scorePc = "call"
    /\ scoreArg \in ScoreInputs
    /\ scoreRet = -1

ScoreIdle ==
    /\ scorePc = "idle"
    /\ scoreArg = << >>
    /\ scoreRet = -1

\* const score = calculateScore(issues)
CallCalculateScore ==
    /\ scorePc = "call"
    /\ scoreRet' \in calculateScore([isArray |-> scoreArg.isArray,
                                     items |-> ScoreItems(scoreArg)])
    /\ scorePc' = "returned"
    /\ UNCHANGED scoreArg

-----------------------------------------------------------------------------
(* the parts of the program a specification leaves out stay idle *)

\* the number of scan requests in flight
NumScanReqs == 1

ScanReqs == 1..NumScanReqs

NoBrowser == 0

NoResults == [issues |-> << >>, documentTitle |-> Undefined, pageUrl |-> Undefined]

\* req.user of a guest, and the user field of a guest's document
NoUser == "null"

NoDoc == [_id |-> 0, url |-> Undefined, issues |-> << >>,
          documentTitle |-> Undefined, pageUrl |-> Undefined, score |-> -1,
          user |-> NoUser]

\* the Authorization header: absent, a token jwt.verify rejects, or a token
\* signed for a user id
NoToken == "(no token)"

BadToken == "(bad token)"

\* the promises a scan request awaits, in the order of the handler, after
\* the user lookup of the middleware
ScanStages == <<"launch", "newPage", "goto", "content", "pa11y", "close", "save">>

NoCalls == [c \in {"findUser"} \cup { ScanStages[k] : k \in DOMAIN ScanStages } |-> 0]

\* no scan request has arrived
ScanReqsIdle ==
    /\ scanPc = [r \in ScanReqs |-> "idle"]
    /\ scanBody = [r \in ScanReqs |-> [url |-> Undefined]]
    /\ scanBrowser = [r \in ScanReqs |-> NoBrowser]
    /\ scanHasForm = [r \in ScanReqs |-> FALSE]
    /\ scanResults = [r \in ScanReqs |-> NoResults]
    /\ scanDoc = [r \in ScanReqs |-> NoDoc]
    /\ scanErr = [r \in ScanReqs |-> "none"]
    /\ scanRes = [r \in ScanReqs |-> << >>]
    /\ browsers = << >>
    /\ scanToken = [r \in ScanReqs |-> NoToken]
    /\ scanUser = [r \in ScanReqs |-> NoUser]
    /\ scanContent = [r \in ScanReqs |-> Undefined]
    /\ scanRunners = [r \in ScanReqs |-> << >>]
    /\ scanCalls = [r \in ScanReqs |-> NoCalls]

\* no scan request has arrived and no scan is saved
ScanIdle == ScanReqsIdle /\ savedScans = << >>

\* response.data of a provider call that has not resolved
Pending == <<"(pending)">>

\* no history request has arrived
HistIdle ==
    /\ histPc = "idle"
    /\ histToken = NoToken
    /\ histUser = NoUser
    /\ histCalls = [findUser |-> 0, find |-> 0]
    /\ histRes = << >>

\* the number of requests that go through the connection middleware
NumDbReqs == 3

DbReqs == 1..NumDbReqs

\* a request that has not called mongoose.connect
NotInvoked == [outcome |-> "none", established |-> FALSE, inProgress |-> 0]

\* no request has reached the connection middleware
DbIdle ==
    /\ isConnected = FALSE
    /\ dbPc = [r \in DbReqs |-> "idle"]
    /\ dbConnects = [r \in DbReqs |-> NotInvoked]

\* no request for a scan by id has arrived
GetIdle ==
    /\ getPc = "idle"
    /\ getToken = NoToken
    /\ getUser = NoUser
    /\ getId = 0
    /\ getRes = << >>

FormIdle ==
    /\ formPc = "idle"
    /\ formArg = Undefined
    /\ formRet = FALSE

EnrichIdle ==
    /\ enrichPc = "idle"
    /\ enrichHasForm = FALSE
    /\ enrichIn = << >>
    /\ enrichOnce = << >>
    /\ enrichOut = << >>

FixIdle ==
    /\ fixPc = "idle"
    /\ fixBody = << >>
    /\ GEMINI_API_KEY = FALSE
    /\ OPENAI_API_KEY = FALSE
    /\ geminiCalls = 0
    /\ openaiCalls = 0
    /\ geminiError = "none"
    /\ geminiData = Pending
    /\ openaiError = "none"
    /\ fixRes = << >>

-----------------------------------------------------------------------------
(* SpecScore: calculateScore applied to every input of ScoreInputs *)

InitScore ==
    ScoreInit /\ FormIdle /\ EnrichIdle /\ FixIdle /\ ScanIdle /\ HistIdle
    /\ DbIdle /\ GetIdle

NextScore ==
    /\ CallCalculateScore
    /\ UNCHANGED <<formVars, enrichVars, fixVars, scanVars, histVars, dbVars,
                 getVars>>

SpecScore == InitScore /\ [][NextScore]_vars

\* the numbers of issues of each counted type in the argument, read off the
\* argument itself
ArgErrors   == scoreArg.count["error"]
ArgWarnings == scoreArg.count["warning"]
ArgNotices  == scoreArg.count["notice"]
ArgTotal    == ArgErrors + ArgWarnings + ArgNotices
\* twice the unscaled deduction errors*3 + warnings*1 + notices*0.5
ArgDeductionHalves == 6 * ArgErrors + 2 * ArgWarnings + ArgNotices

\* C5: for every issue list, of any length and any mix of types,
\* calculateScore returns an integer from 0 to 100 inclusive,
\* and so the score of every scan document saved by POST /api/scan is in that
\* range.
C5_ScoreInRange ==
    /\ scorePc = "returned" => scoreRet \in 0..100
    /\ \A k \in 1..Len(savedScans) : savedScans[k].score \in 0..100

C5_Witness ==
    /\ scorePc = "returned"
    /\ scoreArg.isArray
    /\ ArgErrors = 40 /\ ArgWarnings = 1 /\ ArgNotices = 3
    /\ scoreArg.count["info"] = 1
    /\ scoreRet = 0

\* C6: for every issue list with at most 50 counted issues, calculateScore
\* returns the integer nearest to 100 - (errors*3 + warnings*1 + notices*0.5),
\* a half rounded up, and 0 when that integer is negative; two errors and one
\* warning give 93.
C6_UnscaledScore ==
    (scorePc = "returned" /\ scoreArg.isArray /\ ArgTotal <= 50) =>
        LET v2 == 200 - ArgDeductionHalves   \* twice the exact value
        IN  /\ v2 < 0 => scoreRet = 0
            /\ v2 >= 0 => /\ 2 * scoreRet - 1 <= v2
                          /\ v2 < 2 * scoreRet + 1
            /\ (ArgErrors = 2 /\ ArgWarnings = 1 /\ ArgNotices = 0)
                   => scoreRet = 93

C6_Witness ==
    /\ scorePc = "returned"
    /\ scoreArg.isArray
    /\ ArgErrors = 2 /\ ArgWarnings = 1 /\ ArgNotices = 0
    /\ scoreRet = 93

\* C7: for every issue list with more than 50 counted issues, the deductions
\* are multiplied by 50/total before they are subtracted from 100: the score
\* is an integer nearest to 100 - (errors*3 + warnings + notices*0.5)*50/total
\* when that is positive, it is never below 0, and 60 errors give 0.
C7_ScaledScore ==
    (scorePc = "returned" /\ scoreArg.isArray /\ ArgTotal > 50) =>
        LET p == 200 * ArgTotal - 50 * ArgDeductionHalves
            q == 2 * ArgTotal                 \* the exact value is p / q
            d == scoreRet * q - p
        IN  /\ scoreRet >= 0
            /\ scoreRet > 0 => (2 * d <= q /\ -2 * d <= q)
            /\ scoreRet = 0 => 2 * p <= q
            /\ (ArgErrors = 60 /\ ArgWarnings = 0 /\ ArgNotices = 0)
                   => scoreRet = 0

C7_Witness ==
    /\ scorePc = "returned"
    /\ scoreArg.isArray
    /\ ArgErrors = 60 /\ ArgWarnings = 0 /\ ArgNotices = 0
    /\ scoreRet = 0

\* C22: calculateScore returns 100 for the empty list and for every argument
\* that is no list: null, undefined, another falsy value, a string, an object.
C22_EmptyOrInvalidIs100 ==
    scorePc = "returned" =>
        /\ ~scoreArg.isArray => scoreRet = 100
        /\ (scoreArg.isArray /\ Len(ScoreItems(scoreArg)) = 0) => scoreRet = 100

C22_Witness ==
    /\ scorePc = "returned"
    /\ scoreArg.kind = "undefined"
    /\ scoreRet = 100

\* a list with the same types in the same places and every other field
\* changed
OtherFields(issues) ==
    [k \in DOMAIN issues |->
        [type |-> issues[k].type, code |-> <<"d">>,
         message |-> <<"f","o","r","m">>, selector |-> Undefined,
         context |-> <<"y">>]]

\* lists with as many errors, warnings and notices as the argument: one in
\* every block order, each with another number of issues of other types and
\* with the other fields changed
SameCounts ==
    { OtherFields(BlockList(order,
          [scoreArg.count EXCEPT !["info"] = MaxOther - @])) :
        order \in BlockOrders }

\* C23: the score is a function of the numbers of errors, warnings and
\* notices alone: every list with the same three numbers as the argument,
\* whatever its order, its other fields and its issues of other types, gets
\* the same score as the argument, and that score is one value (where a
\* scaled value falls exactly on a half and 50/total is no exact double, the
\* same two candidate values, of which the arithmetic on the three numbers
\* picks one).
C23_ScoreDependsOnCountsOnly ==
    (scorePc = "returned" /\ scoreArg.isArray) =>
        LET scores == calculateScore([isArray |-> TRUE,
                                      items |-> ScoreItems(scoreArg)])
        IN  /\ scoreRet \in scores
            /\ \A l \in SameCounts :
                  calculateScore([isArray |-> TRUE, items |-> l]) = scores
            /\ ScaleIsExact(ArgTotal) => scores = {scoreRet}
            /\ Cardinality(scores) <= 2

C23_Witness ==
    /\ scorePc = "returned"
    /\ scoreArg.isArray
    /\ scoreArg.order = <<"info", "notice", "warning", "error">>
    /\ ArgErrors = 7 /\ ArgWarnings = 2 /\ ArgNotices = 5
    /\ scoreArg.count["info"] = 1
    /\ scoreRet = 75

-----------------------------------------------------------------------------
(* hasFormElements, src/scan.js:9-23 *)

\* the element names of the six patterns /<form[^>]*>/i ... /<label[^>]*>/i
formElements ==
    << <<"f","o","r","m">>,
       <<"i","n","p","u","t">>,
       <<"s","e","l","e","c","t">>,
       <<"t","e","x","t","a","r","e","a">>,
       <<"b","u","t","t","o","n">>,
       <<"l","a","b","e","l">> >>

\* /<name[^>]*>/i.test(html): a "<", the name in any letter case, any number
\* of characters other than ">", and a ">"
RegexTest(name, html) ==
    \E p \in 1..Len(html) :
        /\ html[p] = "<"
        /\ OccursAt(toLowerCase(html), p + 1, name)
        /\ \E j \in (p + 1 + Len(name))..Len(html) :
              /\ html[j] = ">"
              /\ \A k \in (p + 1 + Len(name))..(j - 1) : html[k] # ">"

hasFormElements(html) ==
    IF html = Undefined \/ html = << >> THEN FALSE
    ELSE \E n \in 1..Len(formElements) : RegexTest(formElements[n], html)

(* hasFormElements called on its own: every input is undefined, empty, or a
   text put together from at most MaxPieces pieces of HtmlPieces *)

MaxPieces == 4

HtmlPieces ==
    { <<"<">>, <<">">>,
      <<"f","o","r","m">>, <<"I","N","P","U","T">>,
      <<"S","e","l","e","c","t">>, <<"t","e","x","t","a","r","e","a">>,
      <<"b","u","t","t","o","n">>, <<"L","a","b","e","l">>,
      <<"d","i","v">>, <<"-","x">>, <<" ","a">> }

RECURSIVE HtmlTexts(_)
HtmlTexts(k) ==
    IF k = 0 THEN { << >> }
    ELSE LET shorter == HtmlTexts(k - 1)
         IN  shorter \cup { t \o piece : t \in shorter, piece \in HtmlPieces }

HtmlInputs == { Undefined } \cup HtmlTexts(MaxPieces)

FormInit ==
    /\ formPc = "call"
    /\ formArg \in HtmlInputs
    /\ formRet = FALSE

\* const hasForm = hasFormElements(pageContent)
CallHasFormElements ==
    /\ formPc = "call"
    /\ formRet' = hasFormElements(formArg)
    /\ formPc' = "returned"
    /\ UNCHANGED formArg

(* SpecForm: hasFormElements applied to every input of HtmlInputs *)

InitForm ==
    FormInit /\ ScoreIdle /\ EnrichIdle /\ FixIdle /\ ScanIdle /\ HistIdle
    /\ DbIdle /\ GetIdle

NextForm ==
    /\ CallHasFormElements
    /\ UNCHANGED <<scoreVars, enrichVars, fixVars, scanVars, histVars, dbVars,
                 getVars>>

SpecForm == InitForm /\ [][NextForm]_vars

\* the characters that end a tag name in an HTML opening tag
TagNameEnd == { " ", "/", ">" }

\* html holds an opening tag of element name: "<", the name in any letter
\* case, the end of the name, and the closing ">"
ContainsOpeningTag(html, name) ==
    \E p \in 1..Len(html) :
        LET after == p + 1 + Len(name)
        IN  /\ html[p] = "<"
            /\ OccursAt(toLowerCase(html), p + 1, name)
            /\ after <= Len(html)
            /\ html[after] \in TagNameEnd
            /\ \E j \in after..Len(html) : html[j] = ">"

ContainsFormElement(html) ==
    /\ html # Undefined
    /\ \E n \in 1..Len(formElements) : ContainsOpeningTag(html, formElements[n])

\* C8: hasFormElements returns true for every HTML text that holds an opening
\* tag of form, input, select, textarea, button or label in any letter case,
\* and false for every text that holds none of the six and for empty or
\* absent input.
C8_FormDetection ==
    formPc = "returned" => (formRet <=> ContainsFormElement(formArg))

\* the half of C8 the code keeps: a text with one of the six opening tags is
\* always detected, and empty or absent input never is
C8_DetectsEveryFormElement ==
    formPc = "returned" =>
        /\ ContainsFormElement(formArg) => formRet
        /\ formArg \in { Undefined, << >> } => ~formRet

-----------------------------------------------------------------------------
(* the enrichment block of POST /api/scan, src/scan.js:84-103 *)

FormDetectedCode ==
    <<"W","C","A","G","2","A","A",".","i","n","f","o",".","f","o","r","m",
      "-","d","e","t","e","c","t","e","d">>

\* the notice pushed at src/scan.js:95-101
SyntheticNoticeMutNoFormToken ==
    [type |-> "notice",
     code |-> FormDetectedCode,
     message |-> <<"I","n","t","e","r","a","c","t","i","v","e"," ","e","l",
                   "e","m","e","n","t","s"," ","d","e","t","e","c","t","e",
                   "d"," ","o","n"," ","p","a","g","e",".">>,
     selector |-> <<"h","t","m","l">>,
     context |-> <<"<","h","t","m","l",">">>]
SyntheticNotice ==
    [type |-> "notice",
     code |-> FormDetectedCode,
     message |-> <<"F","o","r","m"," ","e","l","e","m","e","n","t","s"," ",
                   "d","e","t","e","c","t","e","d"," ","o","n"," ","p","a",
                   "g","e","."," ","E","n","s","u","r","e"," ","a","l","l",
                   " ","f","o","r","m","s"," ","a","r","e"," ","f","u","l",
                   "l","y"," ","a","c","c","e","s","s","i","b","l","e",".">>,
     selector |-> <<"f","o","r","m">>,
     context |-> <<"<","f","o","r","m",">",".",".",".","<","/","f","o","r",
                   "m",">">>]

\* issue.message?.toLowerCase().includes(needle)
optLowerIncludes(s, needle) == s # Undefined /\ includes(toLowerCase(s), needle)

\* the predicate of results.issues.some(...), src/scan.js:86-92
IsFormIssue(issue) ==
    \/ optIncludes(issue.selector, <<"f","o","r","m">>)
    \/ optIncludes(issue.selector, <<"i","n","p","u","t">>)
    \/ optIncludes(issue.selector, <<"s","e","l","e","c","t">>)
    \/ optLowerIncludes(issue.message, <<"f","o","r","m">>)
    \/ optLowerIncludes(issue.message, <<"l","a","b","e","l">>)

hasFormIssues(issues) == \E k \in 1..Len(issues) : IsFormIssue(issues[k])

\* if (hasForm) { if (!hasFormIssues) results.issues.push({...}) }
enrich(issues, hasForm) ==
    IF hasForm /\ ~hasFormIssues(issues)
    THEN Append(issues, SyntheticNotice)
    ELSE issues

(* the enrichment block applied on its own to a list of at most MaxIssues
   issues of EnrichIssues, and then applied again to its own result *)

MaxIssues == 2

EnrichSelectors ==
    { Undefined,
      <<"#","f","o","r","m","1">>,
      <<"F","o","r","m">>,
      <<"d","i","v"," ",">"," ","i","n","p","u","t">>,
      <<"l","a","b","e","l">>,
      <<"h","t","m","l">> }

EnrichMessages ==
    { Undefined,
      <<"T","h","i","s"," ","f","o","r","m"," ","f","i","e","l","d">>,
      <<"M","i","s","s","i","n","g"," ","L","A","B","E","L">>,
      <<"s","e","l","e","c","t">>,
      <<"a","l","t"," ","t","e","x","t">> }

EnrichIssues ==
    { [type |-> "error", code |-> <<"c">>, message |-> m, selector |-> sel,
       context |-> <<"x">>] : m \in EnrichMessages, sel \in EnrichSelectors }

RECURSIVE IssueLists(_)
IssueLists(k) ==
    IF k = 0 THEN { << >> }
    ELSE LET shorter == IssueLists(k - 1)
         IN  shorter \cup { Append(l, i) : l \in shorter, i \in EnrichIssues }

EnrichInit ==
    /\ enrichPc = "start"
    /\ enrichHasForm \in BOOLEAN
    /\ enrichIn \in IssueLists(MaxIssues)
    /\ enrichOnce = << >>
    /\ enrichOut = << >>

\* the block runs over the issues pa11y returned
Enrich ==
    /\ enrichPc = "start"
    /\ enrichOnce' = enrich(enrichIn, enrichHasForm)
    /\ enrichPc' = "once"
    /\ UNCHANGED <<enrichHasForm, enrichIn, enrichOut>>

\* the block runs over its own result
EnrichAgain ==
    /\ enrichPc = "once"
    /\ enrichOut' = enrich(enrichOnce, enrichHasForm)
    /\ enrichPc' = "twice"
    /\ UNCHANGED <<enrichHasForm, enrichIn, enrichOnce>>

(* SpecEnrich *)

InitEnrich ==
    EnrichInit /\ ScoreIdle /\ FormIdle /\ FixIdle /\ ScanIdle /\ HistIdle
    /\ DbIdle /\ GetIdle

NextEnrich ==
    \/ Enrich /\ UNCHANGED <<scoreVars, formVars, fixVars, scanVars, histVars, dbVars,
                 getVars>>
    \/ EnrichAgain
       /\ UNCHANGED <<scoreVars, formVars, fixVars, scanVars, histVars, dbVars,
                 getVars>>

SpecEnrich == InitEnrich /\ [][NextEnrich]_vars

\* the form-related tokens of the enrichment condition as the claim has them
FormTokens ==
    { <<"f","o","r","m">>, <<"i","n","p","u","t">>,
      <<"s","e","l","e","c","t">>, <<"l","a","b","e","l">> }

\* an issue whose selector or message holds one of the tokens, in any letter
\* case, each token looked for in both fields
RefersToForm(issue) ==
    \E tok \in FormTokens :
        \/ optLowerIncludes(issue.selector, tok)
        \/ optLowerIncludes(issue.message, tok)

\* C9: when hasForm is true and no issue has a selector or a message that
\* holds one of the tokens form, input, select, label (substring, any letter
\* case, both fields), exactly one notice with code
\* WCAG2AA.info.form-detected is appended; when some issue holds such a
\* token, nothing is appended.
C9_EnrichmentCondition ==
    (enrichPc # "start" /\ enrichHasForm) =>
        IF \E k \in 1..Len(enrichIn) : RefersToForm(enrichIn[k])
        THEN enrichOnce = enrichIn
        ELSE /\ Len(enrichOnce) = Len(enrichIn) + 1
             /\ SubSeq(enrichOnce, 1, Len(enrichIn)) = enrichIn
             /\ enrichOnce[Len(enrichOnce)].type = "notice"
             /\ enrichOnce[Len(enrichOnce)].code = FormDetectedCode

\* the number of issues of a list that carry the form-detected code
FormDetectedCount(issues) ==
    Cardinality({ k \in 1..Len(issues) : issues[k].code = FormDetectedCode })

\* C10: with hasForm true, applying the enrichment to an already enriched
\* list gives the same list as applying it once, and the list never holds
\* more than one form-detected notice added by the enrichment.
C10_EnrichIdempotent ==
    (enrichPc = "twice" /\ enrichHasForm) =>
        /\ enrichOut = enrichOnce
        /\ FormDetectedCount(enrichOut) <= FormDetectedCount(enrichIn) + 1

C10_Witness ==
    /\ enrichPc = "twice"
    /\ enrichHasForm
    /\ Len(enrichIn) = 2
    /\ enrichOnce = Append(enrichIn, SyntheticNotice)
    /\ enrichOut = enrichOnce

\* the result of the block has the argument as a prefix: no issue of the
\* argument is removed, moved or changed
InputIsPrefix ==
    /\ Len(enrichOnce) >= Len(enrichIn)
    /\ SubSeq(enrichOnce, 1, Len(enrichIn)) = enrichIn

\* C21: enrichment is append-only: for every issue list and every hasForm
\* the result has the argument as a prefix, and the result equals the argument
\* when hasForm is false or when some issue of the argument is form-related
\* (its selector or message holds one of form, input, select, label).
C21_AppendOnly ==
    enrichPc # "start" =>
        /\ InputIsPrefix
        /\ ~enrichHasForm => enrichOnce = enrichIn
        /\ (\E k \in 1..Len(enrichIn) : RefersToForm(enrichIn[k]))
              => enrichOnce = enrichIn

\* what does hold of the block: the argument is a prefix of the result, at
\* most one issue is appended, and nothing is appended when hasForm is false or
\* when the block's own test finds a form issue
C21_PrefixAndOwnTest ==
    enrichPc # "start" =>
        /\ InputIsPrefix
        /\ Len(enrichOnce) <= Len(enrichIn) + 1
        /\ (~enrichHasForm \/ hasFormIssues(enrichIn)) => enrichOnce = enrichIn

-----------------------------------------------------------------------------
(* POST /api/fix, src/fix.js *)

\* a message that is present but is no string (a number in the JSON body)
NonString == <<"number">>

\* an issue type is compared whole and never searched: it is kept as a TLA+
\* string, and NoType is the missing type
NoType == "(undefined)"

\* a text is a tuple of the pieces it is put together from
Null == << >>

AltTextTemplate ==
    <<"It appears there's an image missing alt text. Add descriptive alt attributes to your images: ...">>
FormLabelTemplate ==
    <<"Form inputs should be associated with labels: ...">>
ColorContrastTemplate ==
    <<"This appears to be a color contrast issue. Ensure text has sufficient contrast with its background: ...">>

\* generateBasicFixSuggestion(html, issue), src/fix.js:98-153: the template,
\* null, or a TypeError when issue.message is truthy and has no toLowerCase
generateBasicFixSuggestionMutFormFirst(html, issue) ==
    IF issue.message = NonString THEN [threw |-> TRUE, value |-> Null]
    ELSE
    LET issueLower == IF issue.message # Undefined /\ issue.message # << >>
                      THEN toLowerCase(issue.message) ELSE << >>
    IN  IF \/ includes(issueLower, <<"l","a","b","e","l">>)
           \/ includes(issueLower, <<"f","o","r","m">>)
        THEN [threw |-> FALSE, value |-> FormLabelTemplate]
        ELSE IF \/ includes(issueLower, <<"a","l","t">>)
                \/ /\ includes(issueLower, <<"i","m","a","g","e">>)
                   /\ includes(issueLower, <<"t","e","x","t">>)
        THEN [threw |-> FALSE, value |-> AltTextTemplate]
        ELSE IF \/ includes(issueLower, <<"c","o","n","t","r","a","s","t">>)
                \/ includes(issueLower, <<"c","o","l","o","r">>)
        THEN [threw |-> FALSE, value |-> ColorContrastTemplate]
        ELSE [threw |-> FALSE, value |-> Null]
generateBasicFixSuggestion(html, issue) ==
    IF issue.message = NonString THEN [threw |-> TRUE, value |-> Null]
    ELSE
    LET issueLower == IF issue.message # Undefined /\ issue.message # << >>
                      THEN toLowerCase(issue.message) ELSE << >>
    IN  IF \/ includes(issueLower, <<"a","l","t">>)
           \/ /\ includes(issueLower, <<"i","m","a","g","e">>)
              /\ includes(issueLower, <<"t","e","x","t">>)
        THEN [threw |-> FALSE, value |-> AltTextTemplate]
        ELSE IF \/ includes(issueLower, <<"l","a","b","e","l">>)
                \/ includes(issueLower, <<"f","o","r","m">>)
        THEN [threw |-> FALSE, value |-> FormLabelTemplate]
        ELSE IF \/ includes(issueLower, <<"c","o","n","t","r","a","s","t">>)
                \/ includes(issueLower, <<"c","o","l","o","r">>)
        THEN [threw |-> FALSE, value |-> ColorContrastTemplate]
        ELSE [threw |-> FALSE, value |-> Null]

ErrorAdvisory ==
    <<"This is a critical accessibility issue that should be fixed immediately. Consider consulting the WCAG guidelines.">>
WarningAdvisory ==
    <<"This is a potential accessibility issue that may affect some users. Review the element against WCAG guidelines.">>
NoticeAdvisory ==
    <<"This is a minor accessibility concern that could be improved for better user experience.">>
DefaultAdvisory ==
    <<"Review the affected element against WCAG 2.1 accessibility guidelines.">>

\* getGeneralRecommendation(issue), src/fix.js:156-169
getGeneralRecommendationMutIgnoresType(issue) == ErrorAdvisory
getGeneralRecommendation(issue) ==
    LET issueType == IF issue.type = NoType THEN "error" ELSE issue.type
    IN  CASE issueType = "error"   -> ErrorAdvisory
          [] issueType = "warning" -> WarningAdvisory
          [] issueType = "notice"  -> NoticeAdvisory
          [] OTHER                 -> DefaultAdvisory

RateLimitPreamble ==
    <<"Unable to generate fix suggestion due to API rate limits.\n\nGeneral recommendation: ">>
ApiErrorsPreamble ==
    <<"Could not generate AI-powered fix due to API errors.\n\nGeneral recommendation: ">>
NoKeysPreamble ==
    <<"No AI provider keys available.\n\nGeneral recommendation: ">>
GeminiText == <<"(the text of the first Gemini candidate)">>
NoGeminiText == <<"No response from Gemini.">>
OpenAIText == <<"(the content of the first OpenAI choice)">>
NoOpenAIText == <<"No response from OpenAI.">>

\* res.json({ fix: text })
SendFix(text) ==
    /\ fixRes' = Append(fixRes, [status |-> 200, kind |-> "fix", text |-> text])
    /\ fixPc' = "done"

\* res.status(code).json({ error: message })
SendError(code, message) ==
    /\ fixRes' = Append(fixRes, [status |-> code, kind |-> "error",
                                 text |-> <<message>>])
    /\ fixPc' = "done"

\* the outer catch, src/fix.js:91-94
OuterCatch == SendError(500, "Failed to generate fix suggestion.")

\* src/fix.js:57-90 up to the await: the OpenAI call is started, or without a
\* key the rule-based template or the generic advisory is sent
OpenAIStage ==
    IF OPENAI_API_KEY
    THEN /\ fixPc' = "openai"
         /\ openaiCalls' = openaiCalls + 1
         /\ UNCHANGED fixRes
    ELSE /\ UNCHANGED openaiCalls
         /\ LET basicFix == generateBasicFixSuggestion(fixBody.html, fixBody.issue)
            IN  IF basicFix.threw THEN OuterCatch
                ELSE IF basicFix.value # Null THEN SendFix(basicFix.value)
                ELSE SendFix(NoKeysPreamble
                             \o getGeneralRecommendation(fixBody.issue))

\* the rate-limit branch of the geminiError handler, src/fix.js:35-53
RateLimitFallbackMutSecondaryFirst ==
    IF OPENAI_API_KEY THEN OpenAIStage
    ELSE /\ UNCHANGED openaiCalls
         /\ LET basicFix == generateBasicFixSuggestion(fixBody.html, fixBody.issue)
            IN  IF basicFix.threw THEN OuterCatch
                ELSE IF basicFix.value # Null THEN SendFix(basicFix.value)
                ELSE SendFix(RateLimitPreamble
                             \o getGeneralRecommendation(fixBody.issue))
RateLimitFallback ==
    LET basicFix == generateBasicFixSuggestion(fixBody.html, fixBody.issue)
    IN  IF basicFix.threw THEN OuterCatch /\ UNCHANGED openaiCalls
        ELSE IF basicFix.value # Null
        THEN SendFix(basicFix.value) /\ UNCHANGED openaiCalls
        ELSE IF OPENAI_API_KEY THEN OpenAIStage
        ELSE /\ SendFix(RateLimitPreamble
                        \o getGeneralRecommendation(fixBody.issue))
             /\ UNCHANGED openaiCalls

\* !html || !issue: both are present and truthy
BodyIsValid ==
    /\ fixBody.html # Undefined /\ fixBody.html # << >>
    /\ fixBody.issue.defined

\* src/fix.js:8-9
FixInvalid ==
    /\ fixPc = "start"
    /\ ~BodyIsValid
    /\ SendError(400, "Missing html or issue")
    /\ UNCHANGED <<fixBody, GEMINI_API_KEY, OPENAI_API_KEY, geminiCalls,
                   openaiCalls, geminiError, geminiData, openaiError>>

\* src/fix.js:13-27: with a Gemini key the request is posted and awaited
FixCallGemini ==
    /\ fixPc = "start"
    /\ BodyIsValid
    /\ GEMINI_API_KEY
    /\ fixPc' = "gemini"
    /\ geminiCalls' = geminiCalls + 1
    /\ UNCHANGED <<fixBody, GEMINI_API_KEY, OPENAI_API_KEY, openaiCalls,
                   geminiError, geminiData, openaiError, fixRes>>

\* src/fix.js:13, 57-90: without a Gemini key the handler goes on to OpenAI
FixSkipGemini ==
    /\ fixPc = "start"
    /\ BodyIsValid
    /\ ~GEMINI_API_KEY
    /\ OpenAIStage
    /\ UNCHANGED <<fixBody, GEMINI_API_KEY, OPENAI_API_KEY, geminiCalls,
                   geminiError, geminiData, openaiError>>

\* what response.data.candidates?.[0]?.content?.parts?.[0]?.text can be: a
\* text, the empty text, or undefined when a link of the chain is missing
GeminiCandidateTexts == { GeminiText, << >>, Undefined }

\* src/fix.js:29: text || 'No response from Gemini.'
geminiTextMutNoSentinel(data) == data
geminiText(data) ==
    IF data = Undefined \/ data = << >> THEN NoGeminiText ELSE data

\* src/fix.js:29-30: the call resolved, with or without a candidate text
GeminiResolveMutFallsThrough ==
    /\ fixPc = "gemini"
    /\ \E data \in GeminiCandidateTexts :
          /\ geminiData' = data
          /\ fixRes' = Append(fixRes, [status |-> 200, kind |-> "fix",
                                       text |-> geminiText(data)])
    /\ fixPc' = "openai"
    /\ openaiCalls' = openaiCalls + 1
    /\ UNCHANGED <<fixBody, GEMINI_API_KEY, OPENAI_API_KEY, geminiCalls,
                   geminiError, openaiError>>
GeminiResolve ==
    /\ fixPc = "gemini"
    /\ \E data \in GeminiCandidateTexts :
          /\ geminiData' = data
          /\ SendFix(geminiText(data))
    /\ UNCHANGED <<fixBody, GEMINI_API_KEY, OPENAI_API_KEY, geminiCalls,
                   openaiCalls, geminiError, openaiError>>

\* src/fix.js:31-53: the call was rejected with error code 429
GeminiRateLimited ==
    /\ fixPc = "gemini"
    /\ geminiError' = "rate-limited"
    /\ RateLimitFallback
    /\ UNCHANGED <<fixBody, GEMINI_API_KEY, OPENAI_API_KEY, geminiCalls,
                   geminiData, openaiError>>

\* src/fix.js:31-35, 57-90: the call failed otherwise; the catch block ends
\* and the handler goes on to OpenAI
GeminiFailed ==
    /\ fixPc = "gemini"
    /\ geminiError' = "other"
    /\ OpenAIStage
    /\ UNCHANGED <<fixBody, GEMINI_API_KEY, OPENAI_API_KEY, geminiCalls,
                   geminiData, openaiError>>

\* src/fix.js:74-75
OpenAIResolve ==
    /\ fixPc = "openai"
    /\ \E text \in {OpenAIText, NoOpenAIText} : SendFix(text)
    /\ UNCHANGED <<fixBody, GEMINI_API_KEY, OPENAI_API_KEY, geminiCalls,
                   openaiCalls, geminiError, geminiData, openaiError>>

\* src/fix.js:76-83
OpenAIFailed ==
    /\ fixPc = "openai"
    /\ LET basicFix == generateBasicFixSuggestion(fixBody.html, fixBody.issue)
       IN  IF basicFix.threw THEN OuterCatch
           ELSE IF basicFix.value # Null THEN SendFix(basicFix.value)
           ELSE SendFix(ApiErrorsPreamble
                        \o getGeneralRecommendation(fixBody.issue))
    /\ openaiError' = "failed"
    /\ UNCHANGED <<fixBody, GEMINI_API_KEY, OPENAI_API_KEY, geminiCalls,
                   openaiCalls, geminiError, geminiData>>

(* the requests and the environments of SpecFix *)

FixHtmls == { Undefined, << >>, <<"<","i","m","g",">">> }

FixMessages ==
    { Undefined, NonString, << >>,
      <<"I","m","g"," ","m","i","s","s","i","n","g"," ","a","l","t">>,
      <<"I","m","a","g","e"," ","h","a","s"," ","n","o"," ","t","e","x","t">>,
      <<"i","m","a","g","e">>,
      <<"M","i","s","s","i","n","g"," ","l","a","b","e","l">>,
      <<"F","o","r","m"," ","f","i","e","l","d">>,
      <<"L","o","w"," ","c","o","n","t","r","a","s","t">>,
      <<"C","o","l","o","r"," ","o","n","l","y">>,
      <<"a","l","t"," ","l","a","b","e","l"," ","c","o","l","o","r">>,
      <<"h","e","a","d","i","n","g">> }

FixTypes == { NoType, "error", "warning", "notice", "info" }

FixIssues ==
    { [defined |-> FALSE, message |-> Undefined, type |-> NoType] }
    \cup
    { [defined |-> TRUE, message |-> m, type |-> t] :
        m \in FixMessages, t \in FixTypes }

FixInit ==
    /\ fixPc = "start"
    /\ fixBody \in [html : FixHtmls, issue : FixIssues]
    /\ GEMINI_API_KEY \in BOOLEAN
    /\ OPENAI_API_KEY \in BOOLEAN
    /\ geminiCalls = 0
    /\ openaiCalls = 0
    /\ geminiError = "none"
    /\ geminiData = Pending
    /\ openaiError = "none"
    /\ fixRes = << >>

(* SpecFix: one request to POST /api/fix *)

InitFix ==
    FixInit /\ ScoreIdle /\ FormIdle /\ EnrichIdle /\ ScanIdle /\ HistIdle
    /\ DbIdle /\ GetIdle

FixOthersUnchanged ==
    UNCHANGED <<scoreVars, formVars, enrichVars, scanVars, histVars, dbVars,
                 getVars>>

NextFix ==
    \/ FixInvalid /\ FixOthersUnchanged
    \/ FixCallGemini /\ FixOthersUnchanged
    \/ FixSkipGemini /\ FixOthersUnchanged
    \/ GeminiResolve /\ FixOthersUnchanged
    \/ GeminiRateLimited /\ FixOthersUnchanged
    \/ GeminiFailed /\ FixOthersUnchanged
    \/ OpenAIResolve /\ FixOthersUnchanged
    \/ OpenAIFailed /\ FixOthersUnchanged

SpecFix == InitFix /\ [][NextFix]_vars

\* the rule-based template of the request's issue
RequestTemplate == generateBasicFixSuggestion(fixBody.html, fixBody.issue)

TemplateMatches == ~RequestTemplate.threw /\ RequestTemplate.value # Null

NoTemplateMatches == ~RequestTemplate.threw /\ RequestTemplate.value = Null

\* C2: for every request that carries both html and issue, whatever the
\* configured credentials and the provider outcomes, the handler answers with
\* a fix text and never with an error response.
C2_NeverHardFailure ==
    (BodyIsValid /\ fixPc = "done") =>
        /\ Len(fixRes) = 1
        /\ fixRes[1].status = 200
        /\ fixRes[1].kind = "fix"

\* C3: when the primary provider answers with a rate-limit error (429) and a
\* rule-based template matches the issue's message, the returned fix is the
\* template text and the secondary provider is never invoked, with or without
\* a secondary credential.
C3_RateLimitTemplateFirst ==
    (geminiError = "rate-limited" /\ TemplateMatches) =>
        /\ fixPc = "done"
        /\ fixRes = <<[status |-> 200, kind |-> "fix",
                       text |-> RequestTemplate.value]>>
        /\ openaiCalls = 0

C3_Witness ==
    /\ geminiError = "rate-limited"
    /\ OPENAI_API_KEY
    /\ fixPc = "done"
    /\ fixRes = <<[status |-> 200, kind |-> "fix", text |-> FormLabelTemplate]>>
    /\ openaiCalls = 0

\* the generic advisory texts by issue type
AdvisoryByType ==
    [error |-> ErrorAdvisory, warning |-> WarningAdvisory,
     notice |-> NoticeAdvisory]

NoCredentials == ~GEMINI_API_KEY /\ ~OPENAI_API_KEY

GeminiInFlight ==
    geminiCalls > 0 /\ geminiError = "none" /\ geminiData = Pending

OpenAIInFlight ==
    openaiCalls > 0 /\ openaiError = "none" /\ fixRes = << >>

\* C16: each provider is called at most once per request and only with its
\* credential; the secondary provider is called only when the primary has no
\* credential or its call has already failed; and the two calls are never in
\* flight at the same time.
C16_ChainIsSequential ==
    /\ geminiCalls <= 1
    /\ openaiCalls <= 1
    /\ geminiCalls = 1 => GEMINI_API_KEY
    /\ openaiCalls = 1 =>
          /\ OPENAI_API_KEY
          /\ \/ ~GEMINI_API_KEY /\ geminiCalls = 0
             \/ geminiCalls = 1 /\ geminiError # "none"
    /\ ~(GeminiInFlight /\ OpenAIInFlight)
    /\ fixPc = "gemini" <=> GeminiInFlight
    /\ fixPc = "openai" <=> OpenAIInFlight

C16_Witness ==
    /\ geminiCalls = 1
    /\ geminiError = "other"
    /\ openaiCalls = 1
    /\ OpenAIInFlight

\* C17: when the primary provider's call has resolved, the one response is
\* the fix whose text is the first candidate's text, or 'No response from
\* Gemini.' when the response holds no candidate text (none, or an empty one),
\* whatever template matches the issue, and the secondary provider is not
\* called.
C17_PrimarySuccessEndsChain ==
    (geminiCalls = 1 /\ geminiData # Pending) =>
        /\ GEMINI_API_KEY
        /\ fixPc = "done"
        /\ geminiError = "none"
        /\ openaiCalls = 0
        /\ fixRes = <<[status |-> 200, kind |-> "fix",
                       text |-> IF geminiData \in {Undefined, << >>}
                                THEN <<"No response from Gemini.">>
                                ELSE geminiData]>>

C17_Witness ==
    /\ geminiCalls = 1
    /\ geminiData = Undefined
    /\ OPENAI_API_KEY
    /\ TemplateMatches
    /\ openaiCalls = 0
    /\ fixRes = <<[status |-> 200, kind |-> "fix", text |-> NoGeminiText]>>

\* the chain came to the secondary provider and it failed or has no
\* credential
SecondaryFailedOrMissing ==
    \/ openaiError = "failed"
    \/ /\ ~OPENAI_API_KEY
       /\ ~GEMINI_API_KEY \/ geminiError # "none"

\* C18: when the secondary provider was called and failed, or is not
\* configured, the one response is a fix: the rule-based template when one
\* matches the issue's message, otherwise a text that ends with the generic
\* advisory of the issue's type, and some advisory text for an issue whose
\* type is missing or none of error, warning, notice.
C18_FinalStageAlwaysAnswers ==
    (BodyIsValid /\ fixPc = "done" /\ SecondaryFailedOrMissing) =>
        /\ Len(fixRes) = 1
        /\ fixRes[1].status = 200
        /\ fixRes[1].kind = "fix"
        /\ generateBasicFixSuggestion(fixBody.html, fixBody.issue).value # Null
              => fixRes[1].text
                    = generateBasicFixSuggestion(fixBody.html, fixBody.issue).value
        /\ generateBasicFixSuggestion(fixBody.html, fixBody.issue).value = Null
              => /\ Len(fixRes[1].text) > 0
                 /\ fixBody.issue.type \in DOMAIN AdvisoryByType =>
                       <<fixRes[1].text[Len(fixRes[1].text)]>>
                          = AdvisoryByType[fixBody.issue.type]

\* the lower-cased text of a message, empty for a missing message
MessageText(message) ==
    IF message = Undefined THEN << >> ELSE toLowerCase(message)

\* the three tests of the templates, src/fix.js:102, 120, 142
MatchesAltText(message) ==
    \/ includes(MessageText(message), <<"a","l","t">>)
    \/ /\ includes(MessageText(message), <<"i","m","a","g","e">>)
       /\ includes(MessageText(message), <<"t","e","x","t">>)

MatchesFormLabel(message) ==
    \/ includes(MessageText(message), <<"l","a","b","e","l">>)
    \/ includes(MessageText(message), <<"f","o","r","m">>)

MatchesColorContrast(message) ==
    \/ includes(MessageText(message), <<"c","o","n","t","r","a","s","t">>)
    \/ includes(MessageText(message), <<"c","o","l","o","r">>)

\* the template of every message of FixMessages, whatever html and type
TemplateOf ==
    [m \in FixMessages \ {NonString} |->
        { generateBasicFixSuggestion(h,
              [defined |-> TRUE, message |-> m, type |-> t]) :
            h \in FixHtmls, t \in FixTypes }]

\* C26: the rule-based template is chosen from the issue's message alone, not
\* from the html nor from the issue type, with the precedence alt-text, then
\* form/label, then colour contrast: a message that matches several templates
\* gets the earliest one, and a message that matches none, or a missing
\* message, gets no template.  The handler answers a rate-limited request with
\* that template when there is one.
C26_TemplateFromMessageByPrecedence ==
    LET message == fixBody.issue.message
    IN  (fixBody.issue.defined /\ message # NonString) =>
            /\ TemplateOf[message] = {RequestTemplate}
            /\ ~RequestTemplate.threw
            /\ MatchesAltText(message) =>
                   RequestTemplate.value = AltTextTemplate
            /\ (~MatchesAltText(message) /\ MatchesFormLabel(message)) =>
                   RequestTemplate.value = FormLabelTemplate
            /\ (/\ ~MatchesAltText(message) /\ ~MatchesFormLabel(message)
                /\ MatchesColorContrast(message)) =>
                   RequestTemplate.value = ColorContrastTemplate
            /\ (/\ ~MatchesAltText(message) /\ ~MatchesFormLabel(message)
                /\ ~MatchesColorContrast(message)) =>
                   RequestTemplate.value = Null
            /\ message = Undefined => RequestTemplate.value = Null
            /\ (geminiError = "rate-limited" /\ RequestTemplate.value # Null) =>
                   fixRes = <<[status |-> 200, kind |-> "fix",
                               text |-> RequestTemplate.value]>>

\* a rate-limited request whose message matches all three templates is
\* answered with the alt-text template
C26_Witness ==
    /\ fixPc = "done"
    /\ geminiError = "rate-limited"
    /\ fixBody.issue.message
          = <<"a","l","t"," ","l","a","b","e","l"," ","c","o","l","o","r">>
    /\ fixBody.issue.type = "notice"
    /\ MatchesAltText(fixBody.issue.message)
    /\ MatchesFormLabel(fixBody.issue.message)
    /\ MatchesColorContrast(fixBody.issue.message)
    /\ fixRes = <<[status |-> 200, kind |-> "fix", text |-> AltTextTemplate]>>

-----------------------------------------------------------------------------
(* the authentication middleware, src/unnamed/part_000:7-34 *)

\* the users of the database; the token signed for a user id is written as
\* that id
Users == { "u1", "u2" }

\* part_000:10-20: with a token that jwt.verify accepts the middleware calls
\* User.findById(decoded.id) and awaits it; with no token, or a token that
\* jwt.verify throws on, req.user is null and next() is called at once
authLooksUp(token) == token # NoToken /\ token # BadToken

\* what User.findById(decoded.id) can resolve to: the user, or null when the
\* user is no longer in the database
FoundUsers(token) == { token, NoUser }

-----------------------------------------------------------------------------
(* POST /api/scan, src/scan.js:48-126 *)

\* what page.content() can resolve to
PageContents ==
    { <<"<","p",">","h","i","<","/","p",">">>,
      <<"<","F","o","r","m"," ","i","d","=","f",">","<","/","F","o","r","m",">">>,
      <<"<","i","n","p","u","t",">">> }

\* what pa11y can resolve to: issues, documentTitle and pageUrl
Pa11yIssueLists ==
    { << >>,
      << PlainIssue("error"), PlainIssue("error"), PlainIssue("warning") >>,
      << PlainIssue("notice"), PlainIssue("info") >>,
      << [type |-> "error", code |-> <<"c">>,
          message |-> <<"M","i","s","s","i","n","g"," ","l","a","b","e","l">>,
          selector |-> <<"#","f","o","r","m","1">>, context |-> <<"x">>] >> }

Pa11yResults ==
    { [issues |-> l, documentTitle |-> <<"T">>, pageUrl |-> <<"h","t","t","p",":","/","/","a","/">>] :
        l \in Pa11yIssueLists }

\* src/scan.js:78: runners: hasForm ? ['htmlcs', 'axe'] : ['htmlcs']
runnersMutAlwaysAxe(hasForm) == <<"htmlcs", "axe">>
runners(hasForm) == IF hasForm THEN <<"htmlcs", "axe">> ELSE <<"htmlcs">>

\* the paths ScanResultSchema declares, src/models/ScanResult.js:3-14
SchemaPaths ==
    { "url", "issues", "documentTitle", "pageUrl", "score", "user", "createdAt" }

\* new ScanResult(fields), src/scan.js:109-118 with the schema of
\* src/models/ScanResult.js:3-14: the document gets an _id of its own and
\* keeps the fields the schema declares; a field the schema does not declare
\* (hasForm) is not kept in the document, neither when it is saved nor when
\* it is serialised into the response.  createdAt, which the handler never
\* reads, is left out.
NewScanResult(id, fields) ==
    [f \in {"_id"} \cup (DOMAIN fields \cap SchemaPaths) |->
        IF f = "_id" THEN id ELSE fields[f]]

\* the steps of the handler at which it awaits a promise
ScanAwaits == { "launch", "newPage", "goto", "content", "pa11y", "close", "save" }

\* err.message of the error a promise was rejected with
RejectionMessage(stage) == <<"(the message of the error that rejected ", stage, ")">>

\* the request calls a collaborator
Calls(r, c) == scanCalls' = [scanCalls EXCEPT ![r][c] = @ + 1]

ScanTokens == { NoToken, BadToken, "u1" }

ScanInit ==
    /\ scanPc = [r \in ScanReqs |-> "auth"]
    /\ scanBody \in [ScanReqs -> { [url |-> Undefined],
                                   [url |-> <<"h","t","t","p",":","/","/","a">>] }]
    /\ scanToken \in [ScanReqs -> ScanTokens]
    /\ scanUser = [r \in ScanReqs |-> NoUser]
    /\ scanBrowser = [r \in ScanReqs |-> NoBrowser]
    /\ scanContent = [r \in ScanReqs |-> Undefined]
    /\ scanHasForm = [r \in ScanReqs |-> FALSE]
    /\ scanRunners = [r \in ScanReqs |-> << >>]
    /\ scanResults = [r \in ScanReqs |-> NoResults]
    /\ scanDoc = [r \in ScanReqs |-> NoDoc]
    /\ scanErr = [r \in ScanReqs |-> "none"]
    /\ scanRes = [r \in ScanReqs |-> << >>]
    /\ scanCalls = [r \in ScanReqs |-> NoCalls]
    /\ browsers = << >>
    /\ savedScans = << >>

\* part_000:10-16, 19, 30-32: no token, or jwt.verify throws: the request
\* goes on as a guest
ScanGuest(r) ==
    /\ scanPc[r] = "auth"
    /\ ~authLooksUp(scanToken[r])
    /\ scanUser' = [scanUser EXCEPT ![r] = NoUser]
    /\ scanPc' = [scanPc EXCEPT ![r] = "start"]
    /\ UNCHANGED <<scanBody, scanToken, scanBrowser, scanContent, scanHasForm,
                   scanRunners, scanResults, scanDoc, scanErr, scanRes,
                   scanCalls, browsers, savedScans>>

\* part_000:19-20: the token is verified and User.findById is called
ScanFindUser(r) ==
    /\ scanPc[r] = "auth"
    /\ authLooksUp(scanToken[r])
    /\ Calls(r, "findUser")
    /\ scanPc' = [scanPc EXCEPT ![r] = "findUser"]
    /\ UNCHANGED <<scanBody, scanToken, scanUser, scanBrowser, scanContent,
                   scanHasForm, scanRunners, scanResults, scanDoc, scanErr,
                   scanRes, browsers, savedScans>>

\* part_000:20-29: the lookup resolved with the user or with null
FindUserResolve(r) ==
    /\ scanPc[r] = "findUser"
    /\ \E user \in FoundUsers(scanToken[r]) :
          scanUser' = [scanUser EXCEPT ![r] = user]
    /\ scanPc' = [scanPc EXCEPT ![r] = "start"]
    /\ UNCHANGED <<scanBody, scanToken, scanBrowser, scanContent, scanHasForm,
                   scanRunners, scanResults, scanDoc, scanErr, scanRes,
                   scanCalls, browsers, savedScans>>

\* part_000:30-33: the lookup was rejected; the catch block makes the request
\* a guest's
FindUserReject(r) ==
    /\ scanPc[r] = "findUser"
    /\ scanUser' = [scanUser EXCEPT ![r] = NoUser]
    /\ scanPc' = [scanPc EXCEPT ![r] = "start"]
    /\ UNCHANGED <<scanBody, scanToken, scanBrowser, scanContent, scanHasForm,
                   scanRunners, scanResults, scanDoc, scanErr, scanRes,
                   scanCalls, browsers, savedScans>>

\* if (!url) return res.status(400).json({ error: 'Missing URL' })
ScanInvalidMutNoReturn(r) ==
    /\ scanPc[r] = "start"
    /\ scanBody[r].url = Undefined
    /\ scanRes' = [scanRes EXCEPT ![r] =
                      Append(@, [status |-> 400, kind |-> "error",
                                 body |-> [error |-> <<"Missing URL">>]])]
    /\ Calls(r, "launch")
    /\ scanPc' = [scanPc EXCEPT ![r] = "launch"]
    /\ UNCHANGED <<scanBody, scanToken, scanUser, scanBrowser, scanContent,
                   scanHasForm, scanRunners, scanResults, scanDoc, scanErr,
                   browsers, savedScans>>
ScanInvalid(r) ==
    /\ scanPc[r] = "start"
    /\ scanBody[r].url = Undefined
    /\ scanRes' = [scanRes EXCEPT ![r] =
                      Append(@, [status |-> 400, kind |-> "error",
                                 body |-> [error |-> <<"Missing URL">>]])]
    /\ scanPc' = [scanPc EXCEPT ![r] = "done"]
    /\ UNCHANGED <<scanBody, scanToken, scanUser, scanBrowser, scanContent,
                   scanHasForm, scanRunners, scanResults, scanDoc, scanErr,
                   scanCalls, browsers, savedScans>>

\* await puppeteer.launch(...) is called
ScanLaunch(r) ==
    /\ scanPc[r] = "start"
    /\ scanBody[r].url # Undefined
    /\ Calls(r, "launch")
    /\ scanPc' = [scanPc EXCEPT ![r] = "launch"]
    /\ UNCHANGED <<scanBody, scanToken, scanUser, scanBrowser, scanContent,
                   scanHasForm, scanRunners, scanResults, scanDoc, scanErr,
                   scanRes, browsers, savedScans>>

\* the launch resolved with a new browser, which the handler keeps in its
\* local browser; browser.newPage() is called.  A browser records the request
\* it was launched for, the requests that used it (newPage, the engine run)
\* and the requests that closed it.
LaunchResolveMutSharedBrowser(r) ==
    /\ scanPc[r] = "launch"
    /\ IF browsers = << >>
       THEN /\ browsers' = <<[state |-> "open", closes |-> 0,
                              launchedBy |-> r, usedBy |-> {r},
                              closedBy |-> {}]>>
            /\ scanBrowser' = [scanBrowser EXCEPT ![r] = 1]
       ELSE /\ browsers' = [browsers EXCEPT ![1].usedBy = @ \cup {r}]
            /\ scanBrowser' = [scanBrowser EXCEPT ![r] = 1]
    /\ Calls(r, "newPage")
    /\ scanPc' = [scanPc EXCEPT ![r] = "newPage"]
    /\ UNCHANGED <<scanBody, scanToken, scanUser, scanContent, scanHasForm,
                   scanRunners, scanResults, scanDoc, scanErr, scanRes,
                   savedScans>>
LaunchResolve(r) ==
    /\ scanPc[r] = "launch"
    /\ browsers' = Append(browsers, [state |-> "open", closes |-> 0,
                                     launchedBy |-> r, usedBy |-> {r},
                                     closedBy |-> {}])
    /\ scanBrowser' = [scanBrowser EXCEPT ![r] = Len(browsers) + 1]
    /\ Calls(r, "newPage")
    /\ scanPc' = [scanPc EXCEPT ![r] = "newPage"]
    /\ UNCHANGED <<scanBody, scanToken, scanUser, scanContent, scanHasForm,
                   scanRunners, scanResults, scanDoc, scanErr, scanRes,
                   savedScans>>

\* newPage resolved; page.goto(url, ...) is called
NewPageResolve(r) ==
    /\ scanPc[r] = "newPage"
    /\ Calls(r, "goto")
    /\ scanPc' = [scanPc EXCEPT ![r] = "goto"]
    /\ UNCHANGED <<scanBody, scanToken, scanUser, scanBrowser, scanContent,
                   scanHasForm, scanRunners, scanResults, scanDoc, scanErr,
                   scanRes, browsers, savedScans>>

\* the navigation resolved; page.content() is called
GotoResolve(r) ==
    /\ scanPc[r] = "goto"
    /\ Calls(r, "content")
    /\ scanPc' = [scanPc EXCEPT ![r] = "content"]
    /\ UNCHANGED <<scanBody, scanToken, scanUser, scanBrowser, scanContent,
                   scanHasForm, scanRunners, scanResults, scanDoc, scanErr,
                   scanRes, browsers, savedScans>>

\* the content resolved; hasForm is computed and pa11y is called with the
\* handler's browser and the runners chosen by hasForm
ContentResolve(r) ==
    /\ scanPc[r] = "content"
    /\ \E pageContent \in PageContents :
          LET hasForm == hasFormElements(pageContent)
          IN  /\ scanContent' = [scanContent EXCEPT ![r] = pageContent]
              /\ scanHasForm' = [scanHasForm EXCEPT ![r] = hasForm]
              /\ scanRunners' = [scanRunners EXCEPT ![r] = runners(hasForm)]
    /\ browsers' = [browsers EXCEPT ![scanBrowser[r]].usedBy = @ \cup {r}]
    /\ Calls(r, "pa11y")
    /\ scanPc' = [scanPc EXCEPT ![r] = "pa11y"]
    /\ UNCHANGED <<scanBody, scanToken, scanUser, scanBrowser, scanResults,
                   scanDoc, scanErr, scanRes, savedScans>>

\* pa11y resolved; browser.close() is called
Pa11yResolve(r) ==
    /\ scanPc[r] = "pa11y"
    /\ \E results \in Pa11yResults :
          scanResults' = [scanResults EXCEPT ![r] = results]
    /\ Calls(r, "close")
    /\ scanPc' = [scanPc EXCEPT ![r] = "close"]
    /\ UNCHANGED <<scanBody, scanToken, scanUser, scanBrowser, scanContent,
                   scanHasForm, scanRunners, scanDoc, scanErr, scanRes,
                   browsers, savedScans>>

\* the fields passed to new ScanResult, src/scan.js:109-118
ScanFields(r, results, score) ==
    [url |-> scanBody[r].url, issues |-> results.issues,
     documentTitle |-> results.documentTitle, pageUrl |-> results.pageUrl,
     score |-> score, hasForm |-> scanHasForm[r], user |-> scanUser[r]]

\* src/scan.js:81-120: the browser is closed; the issues are enriched and
\* scored, the document is built and scan.save() is called
CloseResolveMutScoreFirst(r) ==
    /\ scanPc[r] = "close"
    /\ browsers' = [browsers EXCEPT ![scanBrowser[r]] =
                       [@ EXCEPT !.state = "closed", !.closes = @ + 1,
                                 !.closedBy = @ \cup {r}]]
    /\ LET issues == enrich(scanResults[r].issues, scanHasForm[r])
           results == [scanResults[r] EXCEPT !.issues = issues]
       IN  /\ scanResults' = [scanResults EXCEPT ![r] = results]
           /\ \E score \in calculateScore([isArray |-> TRUE,
                                           items |-> scanResults[r].issues]) :
                 scanDoc' = [scanDoc EXCEPT ![r] =
                                NewScanResult(r, ScanFields(r, results, score))]
    /\ Calls(r, "save")
    /\ scanPc' = [scanPc EXCEPT ![r] = "save"]
    /\ UNCHANGED <<scanBody, scanToken, scanUser, scanBrowser, scanContent,
                   scanHasForm, scanRunners, scanErr, scanRes, savedScans>>
CloseResolve(r) ==
    /\ scanPc[r] = "close"
    /\ browsers' = [browsers EXCEPT ![scanBrowser[r]] =
                       [@ EXCEPT !.state = "closed", !.closes = @ + 1,
                                 !.closedBy = @ \cup {r}]]
    /\ LET issues == enrich(scanResults[r].issues, scanHasForm[r])
           results == [scanResults[r] EXCEPT !.issues = issues]
       IN  /\ scanResults' = [scanResults EXCEPT ![r] = results]
           /\ \E score \in calculateScore([isArray |-> TRUE, items |-> issues]) :
                 scanDoc' = [scanDoc EXCEPT ![r] =
                                NewScanResult(r, ScanFields(r, results, score))]
    /\ Calls(r, "save")
    /\ scanPc' = [scanPc EXCEPT ![r] = "save"]
    /\ UNCHANGED <<scanBody, scanToken, scanUser, scanBrowser, scanContent,
                   scanHasForm, scanRunners, scanErr, scanRes, savedScans>>

\* the save resolved; res.json(scan)
SaveResolve(r) ==
    /\ scanPc[r] = "save"
    /\ savedScans' = Append(savedScans, scanDoc[r])
    /\ scanRes' = [scanRes EXCEPT ![r] =
                      Append(@, [status |-> 200, kind |-> "scan",
                                 body |-> scanDoc[r]])]
    /\ scanPc' = [scanPc EXCEPT ![r] = "done"]
    /\ UNCHANGED <<scanBody, scanToken, scanUser, scanBrowser, scanContent,
                   scanHasForm, scanRunners, scanResults, scanDoc, scanErr,
                   scanCalls, browsers>>

\* src/scan.js:122-125: the awaited promise was rejected (the launch, the
\* navigation running into its timeout, the engine, the close, the save);
\* the catch block answers 500 with the error's message
ScanCatchMutSavesPartial(r) ==
    /\ scanPc[r] \in ScanAwaits
    /\ scanErr' = [scanErr EXCEPT ![r] = scanPc[r]]
    /\ savedScans' = Append(savedScans, [scanDoc[r] EXCEPT !._id = r])
    /\ scanRes' = [scanRes EXCEPT ![r] =
                      Append(@, [status |-> 500, kind |-> "error",
                                 body |-> [error |-> RejectionMessage(scanPc[r])]])]
    /\ scanPc' = [scanPc EXCEPT ![r] = "done"]
    /\ UNCHANGED <<scanBody, scanToken, scanUser, scanBrowser, scanContent,
                   scanHasForm, scanRunners, scanResults, scanDoc, scanCalls,
                   browsers>>
ScanCatchMutRetries(r) ==
    /\ scanPc[r] \in ScanAwaits
    /\ IF scanCalls[r][scanPc[r]] < 2
       THEN /\ Calls(r, scanPc[r])
            /\ UNCHANGED <<scanErr, scanRes, scanPc>>
       ELSE /\ scanErr' = [scanErr EXCEPT ![r] = scanPc[r]]
            /\ scanRes' = [scanRes EXCEPT ![r] =
                              Append(@, [status |-> 500, kind |-> "error",
                                         body |-> [error |-> RejectionMessage(scanPc[r])]])]
            /\ scanPc' = [scanPc EXCEPT ![r] = "done"]
            /\ UNCHANGED scanCalls
    /\ UNCHANGED <<scanBody, scanToken, scanUser, scanBrowser, scanContent,
                   scanHasForm, scanRunners, scanResults, scanDoc, browsers,
                   savedScans>>
ScanCatch(r) ==
    /\ scanPc[r] \in ScanAwaits
    /\ scanErr' = [scanErr EXCEPT ![r] = scanPc[r]]
    /\ scanRes' = [scanRes EXCEPT ![r] =
                      Append(@, [status |-> 500, kind |-> "error",
                                 body |-> [error |-> RejectionMessage(scanPc[r])]])]
    /\ scanPc' = [scanPc EXCEPT ![r] = "done"]
    /\ UNCHANGED <<scanBody, scanToken, scanUser, scanBrowser, scanContent,
                   scanHasForm, scanRunners, scanResults, scanDoc, scanCalls,
                   browsers, savedScans>>

(* Spec: the scan requests in flight *)

Init ==
    ScanInit /\ ScoreIdle /\ FormIdle /\ EnrichIdle /\ FixIdle /\ HistIdle
    /\ DbIdle /\ GetIdle

ScanOthersUnchanged ==
    UNCHANGED <<scoreVars, formVars, enrichVars, fixVars, histVars, dbVars,
                getVars>>

Next ==
    \E r \in ScanReqs :
        \/ ScanGuest(r) /\ ScanOthersUnchanged
        \/ ScanFindUser(r) /\ ScanOthersUnchanged
        \/ FindUserResolve(r) /\ ScanOthersUnchanged
        \/ FindUserReject(r) /\ ScanOthersUnchanged
        \/ ScanInvalid(r) /\ ScanOthersUnchanged
        \/ ScanLaunch(r) /\ ScanOthersUnchanged
        \/ LaunchResolve(r) /\ ScanOthersUnchanged
        \/ NewPageResolve(r) /\ ScanOthersUnchanged
        \/ GotoResolve(r) /\ ScanOthersUnchanged
        \/ ContentResolve(r) /\ ScanOthersUnchanged
        \/ Pa11yResolve(r) /\ ScanOthersUnchanged
        \/ CloseResolve(r) /\ ScanOthersUnchanged
        \/ SaveResolve(r) /\ ScanOthersUnchanged
        \/ ScanCatch(r) /\ ScanOthersUnchanged

Spec == Init /\ [][Next]_vars

\* C1: in every request in which the browser was launched, the browser is
\* closed exactly once however the request ends, and on a failure it is
\* closed before the error response is sent.
C1_BrowserClosedOnce ==
    \A r \in ScanReqs :
        (scanBrowser[r] # NoBrowser /\ Len(scanRes[r]) > 0) =>
            /\ browsers[scanBrowser[r]].closes = 1
            /\ browsers[scanBrowser[r]].state = "closed"

\* the records in the database that the request's handler saved
SavedBy(r) == { k \in 1..Len(savedScans) : savedScans[k]._id = r }

\* the handler got as far as building the document: launch, navigation,
\* detection, engine run, enrichment and scoring all succeeded
ScoringSucceeded(r) == scanDoc[r] # NoDoc

\* the response of a request whose awaited promise was rejected at a stage
FailureResponse(stage) ==
    [status |-> 500, kind |-> "error",
     body |-> [error |-> RejectionMessage(stage)]]

\* C11 as stated: when a request has ended, a record is saved if and only if
\* launch, navigation, detection, engine run, enrichment and scoring all
\* succeeded, and then exactly one; when the browser or the engine fails, no
\* record is saved and the one response is the failure with the error's
\* message.
C11_SavedIffScored ==
    \A r \in ScanReqs :
        scanPc[r] = "done" =>
            /\ ScoringSucceeded(r) <=> Cardinality(SavedBy(r)) = 1
            /\ ~ScoringSucceeded(r) => SavedBy(r) = {}
            /\ scanErr[r] \in {"launch", "newPage", "goto", "content",
                               "pa11y", "close"} =>
                  /\ SavedBy(r) = {}
                  /\ scanRes[r] = <<FailureResponse(scanErr[r])>>

\* C11 as amended: a record is saved if and only if launch, navigation,
\* detection, engine run, browser close, enrichment, scoring and the save
\* itself all succeeded, and then exactly one record is saved for the request
\* and it is the body of the one response; when the browser, the engine or the
\* save fails, no record is saved and the one response is the failure (status
\* 500) with the error's message, never a document.
C11_SavedIffSaveResolved ==
    \A r \in ScanReqs :
        /\ Cardinality(SavedBy(r)) <= 1
        /\ SavedBy(r) # {} <=>
              /\ scanPc[r] = "done"
              /\ scanErr[r] = "none"
              /\ \A k \in DOMAIN ScanStages : scanCalls[r][ScanStages[k]] = 1
        /\ SavedBy(r) # {} =>
              /\ ScoringSucceeded(r)
              /\ \A k \in SavedBy(r) : savedScans[k] = scanDoc[r]
              /\ scanRes[r] = <<[status |-> 200, kind |-> "scan",
                                 body |-> scanDoc[r]]>>
        /\ scanErr[r] # "none" =>
              /\ scanPc[r] = "done"
              /\ SavedBy(r) = {}
              /\ scanRes[r] = <<FailureResponse(scanErr[r])>>

C11_Witness ==
    \E r \in ScanReqs :
        /\ scanPc[r] = "done"
        /\ Cardinality(SavedBy(r)) = 1
        /\ scanRes[r] = <<[status |-> 200, kind |-> "scan", body |-> scanDoc[r]]>>
        /\ Len(scanDoc[r].issues) = 3

\* the verdict of hasFormElements on each page content
PageHasForm == [c \in PageContents |-> hasFormElements(c)]

\* C13: once a request has called the engine, the runners it passed are
\* htmlcs and axe if and only if hasFormElements is true of the page content
\* this same request read, and htmlcs alone otherwise; before the call no
\* runners are chosen.
C13_RunnersFollowFormDetection ==
    \A r \in ScanReqs :
        IF scanCalls[r]["pa11y"] = 0 THEN scanRunners[r] = << >>
        ELSE /\ scanCalls[r]["content"] = 1
             /\ scanContent[r] \in PageContents
             /\ scanRunners[r] = <<"htmlcs", "axe">>
                   <=> PageHasForm[scanContent[r]]
             /\ scanRunners[r] = <<"htmlcs">>
                   <=> ~PageHasForm[scanContent[r]]

C13_Witness ==
    \E r \in ScanReqs :
        /\ scanCalls[r]["pa11y"] = 1
        /\ scanContent[r] = <<"<","i","n","p","u","t",">">>
        /\ scanRunners[r] = <<"htmlcs", "axe">>
        /\ scanResults[r] # NoResults

\* the fields a ScanRecord is said to carry
RecordFields ==
    { "url", "issues", "documentTitle", "pageUrl", "score", "hasForm", "user" }

\* C14: every document that is saved, and every document returned in a
\* response, carries url, issues, documentTitle, pageUrl, score, hasForm and
\* user, and its hasForm is the verdict of hasFormElements on the page content
\* of the request that built it.
C14_RecordCarriesAllFields ==
    /\ \A k \in 1..Len(savedScans) :
          /\ RecordFields \subseteq DOMAIN savedScans[k]
          /\ savedScans[k].hasForm
                = hasFormElements(scanContent[savedScans[k]._id])
    /\ \A r \in ScanReqs : \A k \in 1..Len(scanRes[r]) :
          scanRes[r][k].kind = "scan" =>
              /\ RecordFields \subseteq DOMAIN scanRes[r][k].body
              /\ scanRes[r][k].body.hasForm = hasFormElements(scanContent[r])

\* the position of a request in the handler: the middleware, the url check,
\* then the awaited calls in the order of ScanStages, then the response
StageRank(pc) ==
    CASE pc = "auth"     -> 0
      [] pc = "findUser" -> 1
      [] pc = "start"    -> 2
      [] pc = "done"     -> 3 + Len(ScanStages)
      [] OTHER -> 2 + CHOOSE k \in DOMAIN ScanStages : ScanStages[k] = pc

\* the document is the one built from the enriched issues of its request and
\* carries the score of exactly those issues
ScoredAfterEnrichment(doc) ==
    /\ doc.issues = scanResults[doc._id].issues
    /\ PageHasForm[scanContent[doc._id]] => hasFormIssues(doc.issues)
    /\ doc.score \in calculateScore([isArray |-> TRUE, items |-> doc.issues])

\* a step of request r from one position to the next in the handler, or out
\* of an awaited call to the failure response
InOrderOrFailed(r) ==
    \/ scanPc'[r] = scanPc[r]
    \/ StageRank(scanPc[r]) >= 2 /\ StageRank(scanPc'[r]) = StageRank(scanPc[r]) + 1
    \/ scanPc[r] \in {"auth", "findUser"} /\ scanPc'[r] \in {"findUser", "start"}
       /\ StageRank(scanPc'[r]) > StageRank(scanPc[r])
    \/ scanPc'[r] = "done" /\ scanPc[r] = "start" /\ scanBody[r].url = Undefined
    \/ scanPc'[r] = "done" /\ scanPc[r] \in ScanAwaits /\ scanErr'[r] = scanPc[r]

\* C19: a scan goes through launch, navigation, form detection, engine run,
\* close, enrichment and scoring, and save in this order, one position at a
\* time, and can leave for the failure response from every awaited call; the
\* engine is called only by a request whose navigation has resolved; and the
\* score of every document built or saved is calculateScore of the issues of
\* that same document, which are the enriched issues.
C19_StagesInOrder ==
    /\ [](\A r \in ScanReqs :
            /\ scanCalls[r]["pa11y"] > 0 =>
                  /\ scanCalls[r]["goto"] = 1
                  /\ scanErr[r] \notin {"launch", "newPage", "goto", "content"}
            /\ \A k \in DOMAIN ScanStages :
                  scanCalls[r][ScanStages[k]]
                     = IF /\ StageRank(scanPc[r]) >= 2 + k
                          /\ scanErr[r] = "none" \/ StageRank(scanErr[r]) >= 2 + k
                          /\ scanBody[r].url # Undefined
                       THEN 1 ELSE 0
            /\ ScoringSucceeded(r) => ScoredAfterEnrichment(scanDoc[r])
            /\ \A k \in SavedBy(r) : savedScans[k] = scanDoc[r])
    /\ [][\A r \in ScanReqs :
            /\ InOrderOrFailed(r)
            /\ scanCalls'[r]["pa11y"] > scanCalls[r]["pa11y"] =>
                  scanPc[r] = "content" /\ scanPc'[r] = "pa11y"]_vars

C19_Witness ==
    \E r \in ScanReqs :
        /\ Cardinality(SavedBy(r)) = 1
        /\ PageHasForm[scanContent[r]]
        /\ Len(scanDoc[r].issues) = 3
        /\ scanDoc[r].issues[3] = SyntheticNotice
        /\ scanDoc[r].score = 99

\* C20: within one request every awaited call, the launch, the navigation
\* and the engine run among them, is made at most once; the first rejected
\* call ends the scan: the calls before it were made once, no later call is
\* made, nothing is saved and the one response is the failure.
C20_NoRetries ==
    \A r \in ScanReqs :
        /\ \A k \in DOMAIN ScanStages : scanCalls[r][ScanStages[k]] <= 1
        /\ scanErr[r] # "none" =>
              /\ scanPc[r] = "done"
              /\ scanRes[r] = <<FailureResponse(scanErr[r])>>
              /\ SavedBy(r) = {}
              /\ \A k \in DOMAIN ScanStages :
                    scanCalls[r][ScanStages[k]]
                       = IF k <= StageRank(scanErr[r]) - 2 THEN 1 ELSE 0

C20_Witness ==
    \E r \in ScanReqs :
        /\ scanErr[r] = "goto"
        /\ scanCalls[r]["launch"] = 1
        /\ scanCalls[r]["goto"] = 1
        /\ scanCalls[r]["pa11y"] = 0
        /\ scanRes[r] = <<FailureResponse("goto")>>

(* SpecConcurrent: NumConcurrent guests' scan requests with a url, in flight
   at the same time.  What the pages hold and what the engine finds has no
   part in the handling of the browser (src/scan.js:53-81 branches on neither),
   so every page here is the page without a form and every engine run finds
   no issue. *)

NumConcurrent == 2

ConcurrentReqs == 1..NumConcurrent

ConcurrentInit ==
    /\ scanPc = [r \in ConcurrentReqs |-> "auth"]
    /\ scanBody = [r \in ConcurrentReqs |->
                      [url |-> <<"h","t","t","p",":","/","/","a">>]]
    /\ scanToken = [r \in ConcurrentReqs |-> NoToken]
    /\ scanUser = [r \in ConcurrentReqs |-> NoUser]
    /\ scanBrowser = [r \in ConcurrentReqs |-> NoBrowser]
    /\ scanContent = [r \in ConcurrentReqs |-> Undefined]
    /\ scanHasForm = [r \in ConcurrentReqs |-> FALSE]
    /\ scanRunners = [r \in ConcurrentReqs |-> << >>]
    /\ scanResults = [r \in ConcurrentReqs |-> NoResults]
    /\ scanDoc = [r \in ConcurrentReqs |-> NoDoc]
    /\ scanErr = [r \in ConcurrentReqs |-> "none"]
    /\ scanRes = [r \in ConcurrentReqs |-> << >>]
    /\ scanCalls = [r \in ConcurrentReqs |-> NoCalls]
    /\ browsers = << >>
    /\ savedScans = << >>

InitConcurrent ==
    ConcurrentInit /\ ScoreIdle /\ FormIdle /\ EnrichIdle /\ FixIdle /\ HistIdle
    /\ DbIdle /\ GetIdle

NextConcurrent ==
    \E r \in ConcurrentReqs :
        \/ ScanGuest(r) /\ ScanOthersUnchanged
        \/ ScanLaunch(r) /\ ScanOthersUnchanged
        \/ LaunchResolve(r) /\ ScanOthersUnchanged
        \/ NewPageResolve(r) /\ ScanOthersUnchanged
        \/ GotoResolve(r) /\ ScanOthersUnchanged
        \/ /\ ContentResolve(r)
           /\ scanContent'[r] = <<"<","p",">","h","i","<","/","p",">">>
           /\ ScanOthersUnchanged
        \/ /\ Pa11yResolve(r)
           /\ scanResults'[r].issues = << >>
           /\ ScanOthersUnchanged
        \/ CloseResolve(r) /\ ScanOthersUnchanged
        \/ SaveResolve(r) /\ ScanOthersUnchanged
        \/ ScanCatch(r) /\ ScanOthersUnchanged

SpecConcurrent == InitConcurrent /\ [][NextConcurrent]_vars

\* the browsers launched for a request
LaunchedFor(r) == { k \in DOMAIN browsers : browsers[k].launchedBy = r }

\* C24: with any number of scan requests in flight at the same time, each
\* request launches its own browser, hands only that browser to its own engine
\* run, and closes only that browser: a browser launched for one request is
\* never used or closed by another request.
C24_BrowserPerRequest ==
    /\ \A k \in DOMAIN browsers :
          /\ browsers[k].usedBy \subseteq {browsers[k].launchedBy}
          /\ browsers[k].closedBy \subseteq {browsers[k].launchedBy}
    /\ \A r \in DOMAIN scanPc :
          /\ Cardinality(LaunchedFor(r)) <= 1
          /\ scanBrowser[r] # NoBrowser => LaunchedFor(r) = {scanBrowser[r]}
          /\ scanPc[r] \in {"newPage", "goto", "content", "pa11y", "close", "save"}
                => scanBrowser[r] # NoBrowser
          /\ \A q \in DOMAIN scanPc :
                (q # r /\ scanBrowser[r] # NoBrowser) =>
                    scanBrowser[q] # scanBrowser[r]

\* two requests in flight together: the request whose browser was launched
\* second has had its engine run and has closed its browser, while the engine
\* run of the other request is still going on in the browser launched first
C24_Witness ==
    /\ Len(browsers) = 2
    /\ browsers[1].launchedBy # browsers[2].launchedBy
    /\ scanPc[browsers[1].launchedBy] = "pa11y"
    /\ browsers[1].state = "open"
    /\ browsers[1].usedBy = {browsers[1].launchedBy}
    /\ scanPc[browsers[2].launchedBy] = "save"
    /\ browsers[2].state = "closed"
    /\ browsers[2].usedBy = {browsers[2].launchedBy}
    /\ browsers[2].closedBy = {browsers[2].launchedBy}

-----------------------------------------------------------------------------
(* GET /api/history, src/unnamed/part_001 *)

MaxStored == 2

\* a document of the collection, as an earlier scan of the user saved it
StoredDoc(id, user) ==
    [NoDoc EXCEPT !._id = id, !.url = <<"h","t","t","p",":","/","/","a">>,
                  !.score = 100, !.user = user]

\* the collections the request can find: up to MaxStored documents of
\* guests and users, in the order they were saved
StoredScans ==
    UNION { { [k \in 1..n |-> StoredDoc(k, owner[k])] :
                owner \in [1..n -> Users \cup {NoUser}] } : n \in 0..MaxStored }

HistTokens == { NoToken, BadToken } \cup Users

HistoryLimit == 50

\* part_001:13: const query = req.user ? { user: req.user._id } : {}
\* and the documents of the collection the query matches
find(user) ==
    IF user # NoUser THEN SelectSeq(savedScans, LAMBDA d : d.user = user)
    ELSE savedScans

\* .sort({ createdAt: -1 }).limit(50): the newest first, the order of
\* createdAt taken to be the order in which the documents were saved
newestFirst(scans) ==
    LET n == IF Len(scans) < HistoryLimit THEN Len(scans) ELSE HistoryLimit
    IN  [k \in 1..n |-> scans[Len(scans) + 1 - k]]

HistInit ==
    /\ histPc = "auth"
    /\ histToken \in HistTokens
    /\ histUser = NoUser
    /\ histCalls = [findUser |-> 0, find |-> 0]
    /\ histRes = << >>

\* part_000:10-16, 30-32 and part_001:13-15: a guest; ScanResult.find is called
HistGuest ==
    /\ histPc = "auth"
    /\ ~authLooksUp(histToken)
    /\ histUser' = NoUser
    /\ histCalls' = [histCalls EXCEPT !.find = @ + 1]
    /\ histPc' = "find"
    /\ UNCHANGED <<histToken, histRes>>

\* part_000:19-20
HistFindUser ==
    /\ histPc = "auth"
    /\ authLooksUp(histToken)
    /\ histCalls' = [histCalls EXCEPT !.findUser = @ + 1]
    /\ histPc' = "findUser"
    /\ UNCHANGED <<histToken, histUser, histRes>>

\* part_000:20-29 and part_001:13-15: the lookup resolved with the user or
\* with null; ScanResult.find is called
HistUserResolve ==
    /\ histPc = "findUser"
    /\ \E user \in FoundUsers(histToken) : histUser' = user
    /\ histCalls' = [histCalls EXCEPT !.find = @ + 1]
    /\ histPc' = "find"
    /\ UNCHANGED <<histToken, histRes>>

\* part_000:30-33 and part_001:13-15: the lookup was rejected
HistUserReject ==
    /\ histPc = "findUser"
    /\ histUser' = NoUser
    /\ histCalls' = [histCalls EXCEPT !.find = @ + 1]
    /\ histPc' = "find"
    /\ UNCHANGED <<histToken, histRes>>

\* part_001:15-16: res.json(scans)
HistFindResolve ==
    /\ histPc = "find"
    /\ histRes' = Append(histRes, [status |-> 200, kind |-> "scans",
                                   body |-> newestFirst(find(histUser))])
    /\ histPc' = "done"
    /\ UNCHANGED <<histToken, histUser, histCalls>>

\* part_001:17-19
HistFindReject ==
    /\ histPc = "find"
    /\ histRes' = Append(histRes, [status |-> 500, kind |-> "error",
                                   body |-> << >>])
    /\ histPc' = "done"
    /\ UNCHANGED <<histToken, histUser, histCalls>>

(* SpecHistory: one history request on a collection of saved scans *)

InitHistory ==
    /\ HistInit
    /\ ScanReqsIdle
    /\ savedScans \in StoredScans
    /\ ScoreIdle /\ FormIdle /\ EnrichIdle /\ FixIdle /\ DbIdle /\ GetIdle

HistOthersUnchanged ==
    UNCHANGED <<scoreVars, formVars, enrichVars, fixVars, scanVars, dbVars,
                getVars>>

NextHistory ==
    \/ HistGuest /\ HistOthersUnchanged
    \/ HistFindUser /\ HistOthersUnchanged
    \/ HistUserResolve /\ HistOthersUnchanged
    \/ HistUserReject /\ HistOthersUnchanged
    \/ HistFindResolve /\ HistOthersUnchanged
    \/ HistFindReject /\ HistOthersUnchanged

SpecHistory == InitHistory /\ [][NextHistory]_vars

\* C15: the history endpoint requires authentication and returns the
\* requester's own scans: every scan in a history response is owned by the
\* user the request's token was signed for, and a request without a valid
\* token receives no scans.
C15_HistoryIsOwnScansOnly ==
    \A k \in 1..Len(histRes) :
        /\ histToken \notin Users =>
              \/ histRes[k].kind = "error"
              \/ histRes[k].body = << >>
        /\ histRes[k].kind = "scans" =>
              \A j \in 1..Len(histRes[k].body) :
                  histRes[k].body[j].user = histToken

-----------------------------------------------------------------------------
(* GET /api/scan/:id, src/scan.js:128-147 *)

\* ScanResult.findById(req.params.id): the document or null
NoScan == [NoDoc EXCEPT !._id = -1]

findById(id) ==
    IF \E k \in 1..Len(savedScans) : savedScans[k]._id = id
    THEN savedScans[CHOOSE k \in 1..Len(savedScans) : savedScans[k]._id = id]
    ELSE NoScan

GetInit ==
    /\ getPc = "auth"
    /\ getToken \in HistTokens
    /\ getUser = NoUser
    /\ getId \in 1..(MaxStored + 1)
    /\ getRes = << >>

\* part_000:10-16, 30-32 and src/scan.js:131: a guest; findById is called
GetGuest ==
    /\ getPc = "auth"
    /\ ~authLooksUp(getToken)
    /\ getUser' = NoUser
    /\ getPc' = "findById"
    /\ UNCHANGED <<getToken, getId, getRes>>

\* part_000:19-20
GetFindUser ==
    /\ getPc = "auth"
    /\ authLooksUp(getToken)
    /\ getPc' = "findUser"
    /\ UNCHANGED <<getToken, getUser, getId, getRes>>

\* part_000:20-29 and src/scan.js:131: the lookup resolved with the user or
\* with null; findById is called
GetUserResolve ==
    /\ getPc = "findUser"
    /\ \E user \in FoundUsers(getToken) : getUser' = user
    /\ getPc' = "findById"
    /\ UNCHANGED <<getToken, getId, getRes>>

\* part_000:30-33 and src/scan.js:131: the lookup was rejected
GetUserReject ==
    /\ getPc = "findUser"
    /\ getUser' = NoUser
    /\ getPc' = "findById"
    /\ UNCHANGED <<getToken, getId, getRes>>

\* src/scan.js:131-142: findById resolved: 404 without a document, 403 when
\* req.user and scan.user are both set and differ, the document otherwise
GetFindByIdResolve ==
    /\ getPc = "findById"
    /\ LET scan == findById(getId)
       IN  getRes' = Append(getRes,
               IF scan = NoScan
               THEN [status |-> 404, kind |-> "error",
                     body |-> <<"Scan not found">>]
               ELSE IF getUser # NoUser /\ scan.user # NoUser
                       /\ scan.user # getUser
               THEN [status |-> 403, kind |-> "error",
                     body |-> <<"Access denied">>]
               ELSE [status |-> 200, kind |-> "scan", body |-> scan])
    /\ getPc' = "done"
    /\ UNCHANGED <<getToken, getUser, getId>>

\* src/scan.js:143-146: findById was rejected
GetFindByIdReject ==
    /\ getPc = "findById"
    /\ getRes' = Append(getRes, [status |-> 500, kind |-> "error",
                                 body |-> <<"(the message of the error)">>])
    /\ getPc' = "done"
    /\ UNCHANGED <<getToken, getUser, getId>>

(* SpecGet: one request for a scan by id on a collection of saved scans *)

InitGet ==
    /\ GetInit
    /\ ScanReqsIdle
    /\ savedScans \in StoredScans
    /\ ScoreIdle /\ FormIdle /\ EnrichIdle /\ FixIdle /\ HistIdle
    /\ DbIdle

GetOthersUnchanged ==
    UNCHANGED <<scoreVars, formVars, enrichVars, fixVars, scanVars, histVars,
                dbVars>>

NextGet ==
    \/ GetGuest /\ GetOthersUnchanged
    \/ GetFindUser /\ GetOthersUnchanged
    \/ GetUserResolve /\ GetOthersUnchanged
    \/ GetUserReject /\ GetOthersUnchanged
    \/ GetFindByIdResolve /\ GetOthersUnchanged
    \/ GetFindByIdReject /\ GetOthersUnchanged

SpecGet == InitGet /\ [][NextGet]_vars

\* C28: a stored scan that has an owning user is returned by
\* GET /api/scan/:id only to that user: a request from any other requester,
\* authenticated as a different user or not authenticated at all, is denied
\* and never receives the record.
C28_OwnedScanOnlyToOwner ==
    \A k \in 1..Len(getRes) :
        (getRes[k].kind = "scan" /\ getRes[k].body.user # NoUser) =>
            /\ getToken \in Users
            /\ getRes[k].body.user = getToken

\* what does hold: a requester the middleware found to be a user never
\* receives another user's scan, and is answered 403 when the scan is found
C28_OtherUserIsDenied ==
    (getPc = "done" /\ getUser # NoUser /\ findById(getId) # NoScan
       /\ findById(getId).user \notin {NoUser, getUser}) =>
        \/ getRes = <<[status |-> 403, kind |-> "error",
                       body |-> <<"Access denied">>]>>
        \/ getRes = <<[status |-> 500, kind |-> "error",
                       body |-> <<"(the message of the error)">>]>>

-----------------------------------------------------------------------------
(* the database connection, src/index.js:9-38 and 64-75 *)

\* the requests whose call of mongoose.connect has not settled
InProgress == { q \in DbReqs : dbConnects[q].outcome = "pending" }

\* some call of mongoose.connect has resolved: a connection is established
Established == \E q \in DbReqs : dbConnects[q].outcome = "resolved"

DbInit ==
    /\ isConnected = FALSE
    /\ dbPc = [r \in DbReqs |-> "arrive"]
    /\ dbConnects = [r \in DbReqs |-> NotInvoked]

\* src/index.js:66-67, 12-15: the middleware calls connectDB, which returns at
\* once as the flag is set; next() is called
DbUseExisting(r) ==
    /\ dbPc[r] = "arrive"
    /\ isConnected
    /\ dbPc' = [dbPc EXCEPT ![r] = "next"]
    /\ UNCHANGED <<isConnected, dbConnects>>

\* src/index.js:66, 12, 17-30: the flag is not set; mongoose.connect is
\* called and awaited.  The call records whether a connection was established
\* and how many other calls were in progress when it was made.
DbConnect(r) ==
    /\ dbPc[r] = "arrive"
    /\ ~isConnected
    /\ dbConnects' = [dbConnects EXCEPT ![r] =
                          [outcome |-> "pending", established |-> Established,
                           inProgress |-> Cardinality(InProgress)]]
    /\ dbPc' = [dbPc EXCEPT ![r] = "connecting"]
    /\ UNCHANGED isConnected

\* src/index.js:30-32, 67: the call resolved; the flag is set and next() is
\* called
ConnectResolve(r) ==
    /\ dbPc[r] = "connecting"
    /\ isConnected' = TRUE
    /\ dbConnects' = [dbConnects EXCEPT ![r].outcome = "resolved"]
    /\ dbPc' = [dbPc EXCEPT ![r] = "next"]

\* src/index.js:34-37, 68-74: the call was rejected; connectDB rethrows and
\* the middleware answers 503
ConnectReject(r) ==
    /\ dbPc[r] = "connecting"
    /\ dbConnects' = [dbConnects EXCEPT ![r].outcome = "rejected"]
    /\ dbPc' = [dbPc EXCEPT ![r] = "unavailable"]
    /\ UNCHANGED isConnected

(* SpecDb: NumDbReqs requests in flight through the connection middleware *)

InitDb ==
    /\ DbInit
    /\ ScoreIdle /\ FormIdle /\ EnrichIdle /\ FixIdle /\ ScanIdle /\ HistIdle
    /\ GetIdle

DbOthersUnchanged ==
    UNCHANGED <<scoreVars, formVars, enrichVars, fixVars, scanVars, histVars,
                getVars>>

NextDb ==
    \E r \in DbReqs :
        \/ DbUseExisting(r) /\ DbOthersUnchanged
        \/ DbConnect(r) /\ DbOthersUnchanged
        \/ ConnectResolve(r) /\ DbOthersUnchanged
        \/ ConnectReject(r) /\ DbOthersUnchanged

SpecDb == InitDb /\ [][NextDb]_vars

\* C25: the shared database connection guarded by the isConnected flag is
\* safe under concurrent requests: for every interleaving of in-flight
\* requests, connect is never invoked while a connection is already
\* established or while another connect attempt is still in progress, and
\* isConnected is true only after a connect attempt has succeeded.
C25_ConnectGuardedByFlag ==
    /\ \A r \in DbReqs :
          dbConnects[r] # NotInvoked =>
              /\ ~dbConnects[r].established
              /\ dbConnects[r].inProgress = 0
    /\ isConnected => Established

\* what does hold of the flag: it is set only after a call of connect has
\* resolved, and no call is made once it is set
C25_FlagOnlyAfterSuccess ==
    /\ isConnected <=> Established
    /\ \A r \in DbReqs :
          dbConnects[r] # NotInvoked => ~dbConnects[r].established

-----------------------------------------------------------------------------
(* SpecHandlers: the scan requests, or one request to POST /api/fix *)

InitHandlers == Init \/ InitFix

NextHandlers == Next \/ NextFix

SpecHandlers == InitHandlers /\ [][NextHandlers]_vars

\* C12: invalid input is rejected without invoking any collaborator: a scan
\* request with no url never calls the user lookup, the browser, the engine or
\* the database and is answered 400; a fix request with no html or no issue
\* never calls a provider and is answered 400.
C12_InvalidInputCallsNothing ==
    /\ \A r \in ScanReqs :
          (scanPc[r] # "idle" /\ scanBody[r].url = Undefined) =>
              /\ scanCalls[r] = NoCalls
              /\ scanPc[r] = "done" =>
                    scanRes[r] = <<[status |-> 400, kind |-> "error",
                                    body |-> [error |-> <<"Missing URL">>]]>>
    /\ (fixPc # "idle" /\ ~BodyIsValid) =>
          /\ geminiCalls = 0
          /\ openaiCalls = 0
          /\ fixPc = "done" =>
                fixRes = <<[status |-> 400, kind |-> "error",
                            text |-> <<"Missing html or issue">>]>>

\* the handler of scan request r has a step to take: the middleware or the
\* handler runs on, or the promise it awaits settles
ScanCanStep(r) ==
    ENABLED (\/ ScanCatch(r) \/ ScanGuest(r) \/ ScanFindUser(r)
             \/ FindUserReject(r) \/ ScanInvalid(r) \/ ScanLaunch(r)
             \/ FindUserResolve(r) \/ LaunchResolve(r) \/ NewPageResolve(r)
             \/ GotoResolve(r) \/ ContentResolve(r) \/ Pa11yResolve(r)
             \/ CloseResolve(r) \/ SaveResolve(r))

\* the handler of the fix request has a step to take
FixCanStep ==
    ENABLED (\/ FixInvalid \/ FixCallGemini \/ FixSkipGemini \/ GeminiResolve
             \/ GeminiRateLimited \/ GeminiFailed \/ OpenAIResolve
             \/ OpenAIFailed)

\* C27: every request to the fix handler and to the scan handler produces
\* exactly one response on every path through the handler: a request never
\* has more than one response, a handler that has ended has sent one, and a
\* handler that has not sent one has not ended (it has a step to take, on the
\* provider fallback branches and in the failure handlers too).
C27_ExactlyOneResponse ==
    /\ fixPc # "idle" =>
          /\ Len(fixRes) <= 1
          /\ fixPc = "done" <=> Len(fixRes) = 1
          /\ Len(fixRes) = 0 => FixCanStep
          /\ Len(fixRes) = 1 => ~FixCanStep
    /\ \A r \in ScanReqs :
          scanPc[r] # "idle" =>
              /\ Len(scanRes[r]) <= 1
              /\ scanPc[r] = "done" <=> Len(scanRes[r]) = 1
              /\ Len(scanRes[r]) = 0 => ScanCanStep(r)
              /\ Len(scanRes[r]) = 1 => ~ScanCanStep(r)

\* the primary provider was rate-limited, no template matched, the secondary
\* provider failed, and the request has its one response
C27_Witness ==
    /\ fixPc = "done"
    /\ geminiError = "rate-limited"
    /\ openaiError = "failed"
    /\ Len(fixRes) = 1
    /\ fixRes[1].status = 200

-----------------------------------------------------------------------------
(* SpecScoring: calculateScore on its own inputs, or the scan requests, whose
   documents carry the score of their issues *)

InitScoring == InitScore \/ Init

NextScoring == NextScore \/ Next

SpecScoring == InitScoring /\ [][NextScoring]_vars

=============================================================================
